---- MODULE Spec2Model ----
(***************************************************************************)
(* Ant colony game (src/ant-colony-game/game.js, the multi-faction game    *)
(* that starts at line 2983, and src/game.js, the single-colony game).     *)
(*                                                                         *)
(* Units.  JavaScript numbers are modelled by integers:                    *)
(*   time      in twentieths of a second   (0.1 s  = 2)                    *)
(*   position  in twentieths of a tile     (1 tile = PosScale = 20)        *)
(*   hardness and dig progress in hundredths (hardness 0.5 = 50)           *)
(* NaN and undefined are two values below every number of the model; the   *)
(* arithmetic and the comparisons below treat them as JavaScript does.     *)
(*                                                                         *)
(* Objects are kept by identity: ants, colonies and food sources live in   *)
(* sequences indexed by id, and the lists of the program (Game.colonies,   *)
(* Colony.workers, Game.foodSources) hold ids.                             *)
(***************************************************************************)
EXTENDS Integers, Sequences, FiniteSets, TLC

VARIABLES
    tiles,        \* Game.tiles: tiles[y][x] = [type, dug, digProgress]
    applied,      \* observation: numeric dig power applied to each tile so far
    lastCall,     \* observation: the last world operation and what it returned
    running,      \* Game.running
    lastTime,     \* Game.lastTime: Undefined, or a time stamp (kept relative to
                  \* the frame that stored it, so a stored stamp reads 0)
    dt,           \* the argument of the Game.update call in progress
    query,        \* the arguments of the findPath call observed
    path,         \* what that call returned
    ants,         \* every Ant object created so far; an ant's id is its index
    colonies,     \* every Colony object; a colony's id is its index
    gameColonies, \* Game.colonies: the ids of the colonies in the game, in order
    foods,        \* every FoodSource object created so far
    foodSources,  \* Game.foodSources: the ids of the food sources in the game
    ui,           \* the counters updateUI last wrote
    cur,          \* Game.update: the colony and the worker the loops are at
    ticks,        \* observation: the number of Game.update calls begun
    probe,        \* observation: what was true when the running update began,
                  \* and the simulated time since each queen's last spawn
    pc            \* position of the running program

worldVars == <<tiles, applied, lastCall>>
loopVars == <<running, lastTime, dt>>
pathVars == <<query, path>>
gameVars == <<ants, colonies, gameColonies, foods, foodSources, ui, cur, ticks, probe>>
vars == <<tiles, applied, lastCall, running, lastTime, dt, query, path,
          ants, colonies, gameColonies, foods, foodSources, ui, cur, ticks, probe, pc>>

-----------------------------------------------------------------------------
(* JavaScript numbers *)

NaN == 0 - 1000000
Undefined == NaN - 1

IsNum(v) == v > NaN

\* a + b, a - b, a * b: NaN as soon as one operand is NaN or undefined
Add(a, b) == IF IsNum(a) /\ IsNum(b) THEN a + b ELSE NaN
Sub(a, b) == IF IsNum(a) /\ IsNum(b) THEN a - b ELSE NaN
Mul(a, b) == IF IsNum(a) /\ IsNum(b) THEN a * b ELSE NaN

\* Math.min / Math.max / Math.abs
MathMin(a, b) == IF IsNum(a) /\ IsNum(b) THEN (IF a < b THEN a ELSE b) ELSE NaN
MathMax(a, b) == IF IsNum(a) /\ IsNum(b) THEN (IF a > b THEN a ELSE b) ELSE NaN
MathAbs(a) == IF IsNum(a) THEN (IF a < 0 THEN 0 - a ELSE a) ELSE NaN

\* a < b, a <= b, a > b, a >= b, a === b: false as soon as one operand is NaN
Lt(a, b) == IsNum(a) /\ IsNum(b) /\ a < b
Le(a, b) == IsNum(a) /\ IsNum(b) /\ a <= b
Gt(a, b) == IsNum(a) /\ IsNum(b) /\ a > b
Ge(a, b) == IsNum(a) /\ IsNum(b) /\ a >= b
StrictEq(a, b) == IsNum(a) /\ IsNum(b) /\ a = b

\* v || 0: undefined, NaN and 0 all give 0
OrZero(v) == IF IsNum(v) THEN v ELSE 0

-----------------------------------------------------------------------------
(* The world grid *)

worldWidth == 10
worldHeight == 14

PosScale == 2 * 10

SkyRows == 5
CaveMinRow == 10

\* Math.floor of a position, as a tile index
Floor(p) == IF IsNum(p) THEN p \div PosScale ELSE NaN

\* hardness: 0.5 + depth * 0.5 with depth = y / worldHeight
Hardness(y) == 50 + (50 * y) \div worldHeight

AirTile == [type |-> "air", dug |-> TRUE, digProgress |-> Undefined]
DirtTile == [type |-> "dirt", dug |-> FALSE, digProgress |-> Undefined]

isValidTile(x, y) ==
    /\ IsNum(x) /\ IsNum(y)
    /\ x >= 0 /\ x < worldWidth /\ y >= 0 /\ y < worldHeight

\* the loop that opens generateWorld
BaseTiles ==
    [y \in 0 .. worldHeight - 1 |->
        [x \in 0 .. worldWidth - 1 |->
            IF y < SkyRows THEN AirTile ELSE DirtTile]]

\* a carve that sets dug and leaves the type as it was
OpenTileDugOnly(t, tx, ty) ==
    [t EXCEPT ![ty][tx] = [@ EXCEPT !.dug = TRUE]]

\* tiles[ty][tx].dug = true; tiles[ty][tx].type = 'air'
OpenTile(t, tx, ty) ==
    [t EXCEPT ![ty][tx] = [@ EXCEPT !.dug = TRUE, !.type = "air"]]

RECURSIVE OpenAll(_, _)
OpenAll(t, cells) ==
    IF cells = {} THEN t
    ELSE LET c == CHOOSE c \in cells : TRUE
         IN OpenAll(OpenTile(t, c[1], c[2]), cells \ {c})

\* the disk carveTunnel stamps at (x, y): sqrt(ox*ox + oy*oy) <= width,
\* kept to the valid tiles of row 10 and below
Stamp(x, y, width) ==
    {c \in ((x - width) .. (x + width)) \X ((y - width) .. (y + width)) :
        /\ (c[1] - x) * (c[1] - x) + (c[2] - y) * (c[2] - y) <= width * width
        /\ isValidTile(c[1], c[2])
        /\ c[2] >= CaveMinRow}

\* carveTunnel along a horizontal segment from (x1, y) to (x2, y), x1 <= x2:
\* steps = x2 - x1 and the stamps fall on x1, x1 + 1, ..., x2
carveTunnel(t, x1, y, x2, width) ==
    OpenAll(t, UNION {Stamp(x, y, width) : x \in x1 .. x2})

\* the starting chamber of generateWorld
startChamber(t) ==
    LET startX == worldWidth \div 2
        startY == 10
    IN OpenAll(t, {c \in ((startX - 3) .. (startX + 3)) \X (startY .. (startY + 3)) :
                      isValidTile(c[1], c[2])})

\* canMove at integer tile coordinates
passable(t, tx, ty) ==
    /\ isValidTile(tx, ty)
    /\ (t[ty][tx].dug \/ t[ty][tx].type = "air")

getTile(t, x, y) ==
    IF isValidTile(Floor(x), Floor(y)) THEN t[Floor(y)][Floor(x)] ELSE Undefined

\* a canMove that lets an agent into every tile of the world
canMoveInWorld(t, x, y) == isValidTile(Floor(x), Floor(y))

\* tile && (tile.dug || tile.type === 'air')
canMove(t, x, y) == passable(t, Floor(x), Floor(y))

\* a dig that forgets the progress made so far
digSumNoCarry(progress, digPower) == digPower

\* the progress digTile stores: (tile.digProgress || 0) + digPower
digSum(progress, digPower) == Add(OrZero(progress), digPower)

\* a digTile that does not look at dug and type before it adds progress
digTileAnyTile(t, x, y, digPower) ==
    LET tx == Floor(x)
        ty == Floor(y)
    IN IF ~isValidTile(tx, ty) THEN [tiles |-> t, ret |-> FALSE]
       ELSE LET p == digSum(t[ty][tx].digProgress, digPower)
            IN IF Ge(p, Hardness(ty))
               THEN [tiles |-> [t EXCEPT ![ty][tx] =
                         [type |-> "air", dug |-> TRUE, digProgress |-> p]],
                     ret |-> TRUE]
               ELSE [tiles |-> [t EXCEPT ![ty][tx].digProgress = p], ret |-> FALSE]

\* digTile(x, y, digPower): the tiles after the call and the value returned
digTile(t, x, y, digPower) ==
    LET tx == Floor(x)
        ty == Floor(y)
    IN IF ~isValidTile(tx, ty) THEN [tiles |-> t, ret |-> FALSE]
       ELSE LET tile == t[ty][tx]
            IN IF ~tile.dug /\ tile.type = "dirt"
               THEN LET p == digSum(tile.digProgress, digPower)
                    IN IF Ge(p, Hardness(ty))
                       THEN [tiles |-> [t EXCEPT ![ty][tx] =
                                 [type |-> "air", dug |-> TRUE, digProgress |-> p]],
                             ret |-> TRUE]
                       ELSE [tiles |-> [t EXCEPT ![ty][tx].digProgress = p],
                             ret |-> FALSE]
               ELSE [tiles |-> t, ret |-> FALSE]

-----------------------------------------------------------------------------
(* Game.findPath: A* over the passable tiles.  Costs are in tenths (an axis *)
(* move costs 10, a diagonal move 14).                                      *)

Infinity == 1000000000

maxIterations == 500

NoPath == [found |-> FALSE, waypoints |-> << >>, iterations |-> 0]

\* map.get(key) || Infinity: a missing entry and a stored 0 both read Infinity
OrInfinity(map, node) ==
    IF node \in DOMAIN map /\ map[node] # 0 THEN map[node] ELSE Infinity

\* Infinity + c is Infinity
PlusCost(g, c) == IF g = Infinity THEN Infinity ELSE g + c

Put(map, node, v) ==
    [n \in DOMAIN map \cup {node} |-> IF n = node THEN v ELSE map[n]]

heuristic(x1, y1, x2, y2) == 10 * (MathAbs(x1 - x2) + MathAbs(y1 - y2))

center(node) == <<node[1] * PosScale + PosScale \div 2,
                  node[2] * PosScale + PosScale \div 2>>

\* the neighbours of a node, in the order findPath lists them
neighbors(c) ==
    << <<c[1] + 1, c[2]>>, <<c[1] - 1, c[2]>>, <<c[1], c[2] + 1>>, <<c[1], c[2] - 1>>,
       <<c[1] + 1, c[2] + 1>>, <<c[1] + 1, c[2] - 1>>,
       <<c[1] - 1, c[2] + 1>>, <<c[1] - 1, c[2] - 1>> >>

\* the index of the open node findPath expands: the first one whose
\* fScore (|| Infinity) is below that of every node before it
RECURSIVE lowestIndex(_, _, _, _)
lowestIndex(openSet, fScore, i, best) ==
    IF i > Len(openSet) THEN best
    ELSE IF OrInfinity(fScore, openSet[i]) < OrInfinity(fScore, openSet[best])
         THEN lowestIndex(openSet, fScore, i + 1, i)
         ELSE lowestIndex(openSet, fScore, i + 1, best)

RemoveAt(seq, i) == SubSeq(seq, 1, i - 1) \o SubSeq(seq, i + 1, Len(seq))

\* reconstructPath: walk cameFrom back from the goal, unshifting each node.
\* fuel bounds the walk by the number of tiles; a walk that has not ended by
\* then is in a cycle of cameFrom and never returns.
RECURSIVE reconstructPath(_, _, _, _)
reconstructPath(cameFrom, current, acc, fuel) ==
    IF current \notin DOMAIN cameFrom THEN [ends |-> TRUE, waypoints |-> acc]
    ELSE IF fuel = 0 THEN [ends |-> FALSE, waypoints |-> acc]
    ELSE reconstructPath(cameFrom, cameFrom[current],
                         <<center(cameFrom[current])>> \o acc, fuel - 1)

\* tentativeG as computed when the node about to be relaxed is reached from current
tentativeG(gScore, current, neighbor) ==
    PlusCost(OrInfinity(gScore, current),
             IF neighbor[1] # current[1] /\ neighbor[2] # current[2] THEN 14 ELSE 10)

\* the for loop over the neighbours of current
RECURSIVE relax(_, _, _, _, _, _)
relax(t, st, current, goal, ns, i) ==
    IF i > Len(ns) THEN st
    ELSE LET n == ns[i]
             tg == tentativeG(st.gScore, current, n)
         IN IF ~passable(t, n[1], n[2]) THEN relax(t, st, current, goal, ns, i + 1)
            ELSE IF tg < OrInfinity(st.gScore, n)
            THEN relax(t,
                       [st EXCEPT
                          !.cameFrom = Put(st.cameFrom, n, current),
                          !.gScore = Put(st.gScore, n, tg),
                          !.fScore = Put(st.fScore, n,
                                         tg + heuristic(n[1], n[2], goal[1], goal[2])),
                          !.openSet = IF \E j \in 1 .. Len(st.openSet) : st.openSet[j] = n
                                      THEN st.openSet
                                      ELSE Append(st.openSet, n)],
                       current, goal, ns, i + 1)
            ELSE relax(t, st, current, goal, ns, i + 1)

\* the while loop of findPath
RECURSIVE search(_, _, _)
search(t, st, goal) ==
    IF ~(Len(st.openSet) > 0 /\ st.iterations < maxIterations)
    THEN [NoPath EXCEPT !.iterations = st.iterations]
    ELSE LET idx == lowestIndex(st.openSet, st.fScore, 2, 1)
             current == st.openSet[idx]
             its == st.iterations + 1
         IN IF current = goal
            THEN LET r == reconstructPath(st.cameFrom, current, <<center(current)>>,
                                          worldWidth * worldHeight)
                 IN [found |-> r.ends, waypoints |-> r.waypoints, iterations |-> its]
            ELSE search(t,
                        relax(t, [st EXCEPT !.openSet = RemoveAt(st.openSet, idx),
                                            !.iterations = its],
                              current, goal, neighbors(current), 1),
                        goal)

\* a findPath that searches without looking at its endpoints first
findPathUnchecked(t, startX, startY, endX, endY) ==
    LET start == <<Floor(startX), Floor(startY)>>
        end == <<Floor(endX), Floor(endY)>>
    IN search(t,
              [openSet |-> <<start>>,
               cameFrom |-> << >>,
               gScore |-> Put(<< >>, start, 0),
               fScore |-> Put(<< >>, start,
                              heuristic(start[1], start[2], end[1], end[2])),
               iterations |-> 0],
              end)

\* findPath(startX, startY, endX, endY)
findPath(t, startX, startY, endX, endY) ==
    LET start == <<Floor(startX), Floor(startY)>>
        end == <<Floor(endX), Floor(endY)>>
    IN IF ~passable(t, start[1], start[2]) \/ ~passable(t, end[1], end[2])
       THEN NoPath
       ELSE search(t,
                   [openSet |-> <<start>>,
                    cameFrom |-> << >>,
                    gScore |-> Put(<< >>, start, 0),
                    fScore |-> Put(<< >>, start,
                                   heuristic(start[1], start[2], end[1], end[2])),
                    iterations |-> 0],
                   end)

NoQuery == [startX |-> 0, startY |-> 0, endX |-> 0, endY |-> 0]

PathIdle ==
    /\ query = NoQuery
    /\ path = NoPath

-----------------------------------------------------------------------------
(* The game loop: start() and gameLoop(currentTime) *)

\* the cap of Math.min(deltaTime, 0.1)
MaxStep == 2

\* real time between two animation frames, in twentieths of a second
RawDeltas == {0, 1, 3}

\* deltaTime = (currentTime - this.lastTime) / 1000
deltaTime(currentTime, last) == Sub(currentTime, last)

\* the argument gameLoop passes to update
cappedStep(currentTime, last) == MathMin(deltaTime(currentTime, last), MaxStep)

\* dt * k, the dig power of a blocked move (k = 10, 8 or 6 per second)
digPower(step, k) == Mul(step, k * 5)

-----------------------------------------------------------------------------
(* Agents of the multi-faction game: Ant, WorkerAnt, Queen, FoodSource     *)

\* Ant.speed: 3 tiles per second, i.e. 3 twentieths of a tile per twentieth
\* of a second
speed == 3

\* distances the code compares against, in twentieths of a tile
MoveEps == PosScale \div 10
DigReach == (6 * PosScale) \div 10
WaypointRange == PosScale \div 2
AiPickupRange == PosScale
PlayerPickupRange == (3 * PosScale) \div 2
DeliverRange == (5 * PosScale) \div 2
AttackRange == (3 * PosScale) \div 2

\* amounts of food
PlayerCarry == 15
AiCarry == 5
foodPerWorker == 20

\* times, in twentieths of a second
spawnCooldown == 10 * 20
AttackCooldown == 20 \div 2
PathRecalc == 2 * 20
WanderTime == 3 * 20

PlayerId == 1

\* game.findPath's result as stored in WorkerAnt.path: null is found = FALSE
NullPath == [found |-> FALSE, waypoints |-> << >>]

\* new WorkerAnt(x, y, isPlayer), then colony.addWorker(worker)
WorkerAnt(x, y, isPlayer, colony) ==
    [kind |-> "worker", x |-> x, y |-> y, isPlayer |-> isPlayer, colony |-> colony,
     health |-> 100, maxHealth |-> 100, alive |-> TRUE,
     carryingFood |-> FALSE, foodAmount |-> 0, targetFood |-> 0,
     digCooldown |-> 0, attackCooldown |-> 0, stateTimer |-> 0,
     path |-> NullPath, pathIndex |-> 0, pathRecalcTimer |-> 0,
     wanderX |-> Undefined, wanderY |-> Undefined, spawnTimer |-> Undefined]

\* new Queen(x, y, colony); the fields of a worker that a queen lacks read as
\* undefined (falsy) in takeDamage
Queen(x, y, colony) ==
    [kind |-> "queen", x |-> x, y |-> y, isPlayer |-> FALSE, colony |-> colony,
     health |-> 200, maxHealth |-> 200, alive |-> TRUE,
     carryingFood |-> FALSE, foodAmount |-> 0, targetFood |-> 0,
     digCooldown |-> Undefined, attackCooldown |-> Undefined, stateTimer |-> Undefined,
     path |-> NullPath, pathIndex |-> 0, pathRecalcTimer |-> Undefined,
     wanderX |-> Undefined, wanderY |-> Undefined, spawnTimer |-> 0]

\* new Colony(factionId, queenX, queenY, isPlayer) with its queen created
Colony(factionId, isPlayer, queen, workers, food) ==
    [factionId |-> factionId, isPlayer |-> isPlayer, queen |-> queen,
     workers |-> workers, food |-> food]

\* new FoodSource(x, y, amount)
FoodSource(x, y, amount) == [x |-> x, y |-> y, amount |-> amount]

Sq(a) == a * a

\* Math.sqrt(dx * dx + dy * dy), rounded down to the unit of position
Dist(dx, dy) ==
    IF dy = 0 THEN MathAbs(dx)
    ELSE IF dx = 0 THEN MathAbs(dy)
    ELSE CHOOSE r \in 0 .. (MathAbs(dx) + MathAbs(dy)) :
             Sq(r) <= Sq(dx) + Sq(dy) /\ Sq(r + 1) > Sq(dx) + Sq(dy)

\* Math.sqrt(dx * dx + dy * dy) < r for the vector between two points
Nearer(x1, y1, x2, y2, r) ==
    /\ IsNum(x1) /\ IsNum(y1) /\ IsNum(x2) /\ IsNum(y2)
    /\ Sq(x2 - x1) + Sq(y2 - y1) < Sq(r)

\* (d / dist) * k for a component d of a vector of length dist
Along(d, dist, k) ==
    IF d < 0 THEN 0 - (((0 - d) * k) \div dist) ELSE (d * k) \div dist

\* the index of the first TRUE of a sequence of booleans, 0 if there is none
FirstTrue(flags) ==
    IF \E i \in 1 .. Len(flags) : flags[i]
    THEN CHOOSE i \in 1 .. Len(flags) : flags[i] /\ \A j \in 1 .. (i - 1) : ~flags[j]
    ELSE 0

\* the game objects an update works on
World ==
    [tiles |-> tiles, ants |-> ants, colonies |-> colonies,
     gameColonies |-> gameColonies, foods |-> foods, foodSources |-> foodSources]

\* a takeDamage that lets health go below zero
healthAfterUnclamped(health, amount) == health - amount

\* the health takeDamage leaves: health -= amount, and 0 if that is <= 0
healthAfter(health, amount) ==
    IF health - amount <= 0 THEN 0 ELSE health - amount

\* a takeDamage that drops nothing
takeDamageNoDrop(g, id, amount, withGame) ==
    LET a == g.ants[id]
        hit == [g EXCEPT !.ants[id].health = healthAfter(a.health, amount)]
    IN IF a.health - amount <= 0
       THEN [hit EXCEPT !.ants[id].alive = FALSE]
       ELSE hit

\* Ant.takeDamage(amount, game); withGame is FALSE for the call without game
\* (game = null), which is also takeDamage(amount) of src/game.js
takeDamage(g, id, amount, withGame) ==
    LET a == g.ants[id]
        hit == [g EXCEPT !.ants[id].health = healthAfter(a.health, amount)]
    IN IF a.health - amount <= 0
       THEN LET dead == [hit EXCEPT !.ants[id].alive = FALSE]
            IN IF a.carryingFood /\ a.foodAmount > 0 /\ withGame
               THEN [dead EXCEPT
                        !.foods = Append(@, FoodSource(a.x, a.y, a.foodAmount)),
                        !.foodSources = Append(@, Len(g.foods) + 1)]
               ELSE dead
       ELSE hit

\* the blocked branch of a move: dig towards (ox, oy) from the ant
digAhead(g, id, ox, oy, diagonal, step) ==
    LET a == g.ants[id]
        t1 == IF diagonal
              THEN digTile(digTile(g.tiles, a.x + ox, a.y, digPower(step, 8)).tiles,
                           a.x, a.y + oy, digPower(step, 8)).tiles
              ELSE g.tiles
    IN [g EXCEPT !.tiles = digTile(t1, a.x + ox, a.y + oy, digPower(step, 10)).tiles]

\* WorkerAnt.moveTowards(targetX, targetY, dt, game)
moveTowards(g, id, targetX, targetY, step) ==
    LET a == g.ants[id]
        dx == Sub(targetX, a.x)
        dy == Sub(targetY, a.y)
    IN IF ~(IsNum(dx) /\ IsNum(dy)) THEN g
       ELSE IF ~(Sq(dx) + Sq(dy) > Sq(MoveEps)) THEN g
       ELSE LET dist == Dist(dx, dy)
                newX == IF IsNum(step) THEN a.x + Along(dx, dist, speed * step) ELSE NaN
                newY == IF IsNum(step) THEN a.y + Along(dy, dist, speed * step) ELSE NaN
            IN IF canMove(g.tiles, newX, newY)
               THEN [g EXCEPT !.ants[id].x = newX, !.ants[id].y = newY]
               ELSE digAhead(g, id, Along(dx, dist, DigReach), Along(dy, dist, DigReach),
                             100 * Sq(dx) > Sq(dx) + Sq(dy) /\ 100 * Sq(dy) > Sq(dx) + Sq(dy),
                             step)

\* deliver that credits the stockpile and leaves the load with the worker
deliverKeepingLoad(g, id) ==
    [g EXCEPT !.colonies[g.ants[id].colony].food = @ + g.ants[id].foodAmount]

\* the delivery at the end of updatePlayer and of the carrying branch of updateAI
deliver(g, id) ==
    LET a == g.ants[id]
    IN [g EXCEPT !.colonies[a.colony].food = @ + a.foodAmount,
                 !.ants[id].foodAmount = 0,
                 !.ants[id].carryingFood = FALSE]

\* pickUp without the min: the full carry capacity whatever the source holds
pickUpFullLoad(g, id, f, carry) ==
    [g EXCEPT !.foods[f].amount = @ - carry,
              !.ants[id].foodAmount = carry,
              !.ants[id].carryingFood = TRUE]

\* the pick-up of updatePlayer and updateAI: take at most carry from food f
pickUp(g, id, f, carry) ==
    LET taken == IF carry < g.foods[f].amount THEN carry ELSE g.foods[f].amount
    IN [g EXCEPT !.foods[f].amount = @ - taken,
                 !.ants[id].foodAmount = taken,
                 !.ants[id].carryingFood = TRUE]

\* WorkerAnt.updatePlayer(dt, input, game)
updatePlayer(g, id, input, step) ==
    LET a == g.ants[id]
        newX == Add(a.x, Mul(input[1] * speed, step))
        newY == Add(a.y, Mul(input[2] * speed, step))
        g1 == IF input[1] = 0 /\ input[2] = 0 THEN g
              ELSE IF canMove(g.tiles, newX, newY)
              THEN [g EXCEPT !.ants[id].x = newX, !.ants[id].y = newY]
              ELSE digAhead(g, id, input[1] * DigReach, input[2] * DigReach,
                            input[1] # 0 /\ input[2] # 0, step)
        a1 == g1.ants[id]
        near == FirstTrue([i \in 1 .. Len(g1.foodSources) |->
                    /\ Nearer(a1.x, a1.y, g1.foods[g1.foodSources[i]].x,
                              g1.foods[g1.foodSources[i]].y, PlayerPickupRange)
                    /\ g1.foods[g1.foodSources[i]].amount > 0])
        g2 == IF ~a1.carryingFood /\ near # 0
              THEN pickUp(g1, id, g1.foodSources[near], PlayerCarry)
              ELSE g1
        a2 == g2.ants[id]
        q == g2.ants[g2.colonies[a2.colony].queen]
    IN IF a2.carryingFood /\ Nearer(a2.x, a2.y, q.x, q.y, DeliverRange)
       THEN deliver(g2, id)
       ELSE g2

\* dx * dx + dy * dy from (x, y) to food source f
foodDistSq(g, f, x, y) == Sq(g.foods[f].x - x) + Sq(g.foods[f].y - y)

\* a selection that takes the first source with food left, near or far
firstFood(g, x, y) ==
    LET live == SelectSeq(g.foodSources, LAMBDA f : g.foods[f].amount > 0)
    IN IF Len(live) = 0 THEN 0 ELSE live[1]

\* the nearest food source of updateAI: the first one in Game.foodSources
\* with food left that no other one with food left is strictly nearer than
nearestFood(g, x, y) ==
    LET live == SelectSeq(g.foodSources, LAMBDA f : g.foods[f].amount > 0)
    IN IF Len(live) = 0 THEN 0
       ELSE live[CHOOSE i \in 1 .. Len(live) :
                    /\ \A j \in 1 .. Len(live) :
                          foodDistSq(g, live[i], x, y) <= foodDistSq(g, live[j], x, y)
                    /\ \A j \in 1 .. (i - 1) :
                          foodDistSq(g, live[j], x, y) > foodDistSq(g, live[i], x, y)]

\* updateAI, line 4564: !this.path || this.pathRecalcTimer <= 0, after the
\* timer has been decreased by dt
recalcDue(a, step) == ~a.path.found \/ Le(Sub(a.pathRecalcTimer, step), 0)

\* does the update of ant a call game.findPath: a is a living AI worker that
\* carries food and its recalculation is due
callsFindPath(a, step) ==
    /\ a.kind = "worker"
    /\ a.alive
    /\ ~a.isPlayer
    /\ a.carryingFood
    /\ recalcDue(a, step)

\* WorkerAnt.updateAI(dt, game); wander is the random offset of a new wander
\* target, used only if the worker picks one
updateAI(g, id, step, wander) ==
    LET a == g.ants[id]
        q == g.ants[g.colonies[a.colony].queen]
    IN IF a.carryingFood
       THEN LET timer == Sub(a.pathRecalcTimer, step)
                recalc == recalcDue(a, step)
                found == findPath(g.tiles, a.x, a.y, q.x, q.y)
                p == IF recalc
                     THEN [found |-> found.found, waypoints |-> found.waypoints]
                     ELSE a.path
                idx == IF recalc THEN 0 ELSE a.pathIndex
                g1 == [g EXCEPT !.ants[id].path = p,
                                !.ants[id].pathIndex = idx,
                                !.ants[id].pathRecalcTimer =
                                    IF recalc THEN PathRecalc ELSE timer]
                follow == p.found /\ idx < Len(p.waypoints)
                target == IF follow THEN p.waypoints[idx + 1] ELSE <<q.x, q.y>>
                g2 == moveTowards(g1, id, target[1], target[2], step)
                a2 == g2.ants[id]
                g3 == IF follow /\ Nearer(a2.x, a2.y, target[1], target[2], WaypointRange)
                      THEN [g2 EXCEPT !.ants[id].pathIndex = idx + 1]
                      ELSE g2
            IN IF Nearer(a2.x, a2.y, q.x, q.y, DeliverRange)
               THEN [deliver(g3, id) EXCEPT !.ants[id].targetFood = 0,
                                            !.ants[id].path = NullPath]
               ELSE g3
       ELSE LET retarget == a.targetFood = 0 \/ g.foods[a.targetFood].amount = 0
                tf == IF retarget THEN nearestFood(g, a.x, a.y) ELSE a.targetFood
                g1 == [g EXCEPT !.ants[id].targetFood = tf]
            IN IF tf # 0
               THEN LET g2 == moveTowards(g1, id, g.foods[tf].x, g.foods[tf].y, step)
                        a2 == g2.ants[id]
                    IN IF /\ Nearer(a2.x, a2.y, g.foods[tf].x, g.foods[tf].y, AiPickupRange)
                          /\ g.foods[tf].amount > 0
                       THEN pickUp(g2, id, tf, AiCarry)
                       ELSE g2
               ELSE LET g2 == IF Le(a.stateTimer, 0)
                              THEN [g1 EXCEPT !.ants[id].wanderX = a.x + wander[1],
                                              !.ants[id].wanderY = a.y + wander[2],
                                              !.ants[id].stateTimer = WanderTime]
                              ELSE g1
                    IN moveTowards(g2, id, g2.ants[id].wanderX, g2.ants[id].wanderY, step)

\* a scan that does not skip the colony of the attacker
RECURSIVE scanOrderAllColonies(_, _, _)
scanOrderAllColonies(g, id, i) ==
    IF i > Len(g.gameColonies) THEN << >>
    ELSE LET c == g.colonies[g.gameColonies[i]]
         IN SelectSeq(c.workers, LAMBDA w : g.ants[w].alive /\ w # id)
            \o (IF g.ants[c.queen].alive THEN <<c.queen>> ELSE << >>)
            \o scanOrderAllColonies(g, id, i + 1)

\* the order in which checkCombat looks at the ants of the other factions:
\* colony by colony in Game.colonies, the living workers and then the queen
RECURSIVE scanOrder(_, _, _)
scanOrder(g, id, i) ==
    IF i > Len(g.gameColonies) THEN << >>
    ELSE LET c == g.colonies[g.gameColonies[i]]
             own == g.colonies[g.ants[id].colony]
         IN IF c.factionId = own.factionId THEN scanOrder(g, id, i + 1)
            ELSE SelectSeq(c.workers, LAMBDA w : g.ants[w].alive /\ w # id)
                 \o (IF g.ants[c.queen].alive THEN <<c.queen>> ELSE << >>)
                 \o scanOrder(g, id, i + 1)

\* workerDamage and queenDamage of checkCombat
damage(attacker, defender) ==
    IF defender.kind = "queen"
    THEN (IF attacker.isPlayer THEN 20 ELSE 10)
    ELSE (IF attacker.isPlayer THEN 30 ELSE 15)

\* the ant checkCombat hits: the first one in scan order that is nearer than
\* the attack range, if attackCooldown <= 0; 0 if there is none
combatTarget(g, id) ==
    LET a == g.ants[id]
        order == scanOrder(g, id, 1)
        i == FirstTrue([k \in 1 .. Len(order) |->
                 Nearer(a.x, a.y, g.ants[order[k]].x, g.ants[order[k]].y, AttackRange)])
    IN IF Le(a.attackCooldown, 0) /\ i # 0 THEN order[i] ELSE 0

\* WorkerAnt.checkCombat(dt, game); Game.enemies is empty in this game
checkCombat(g, id) ==
    LET e == combatTarget(g, id)
    IN IF e = 0 THEN g
       ELSE [takeDamage(g, e, damage(g.ants[id], g.ants[e]), TRUE)
                EXCEPT !.ants[id].attackCooldown = AttackCooldown]

\* the one element of a singleton set
The(S) == CHOOSE x \in S : TRUE

\* WorkerAnt.update, lines 4485-4487: the cooldowns and the state timer
coolDown(g, id, step) ==
    [g EXCEPT !.ants[id].digCooldown = MathMax(0, Sub(@, step)),
              !.ants[id].attackCooldown = MathMax(0, Sub(@, step)),
              !.ants[id].stateTimer = Sub(@, step)]

\* an update that does not look at the alive flag
WorkerUpdateOfTheDead(g, id, input, step, wander) ==
    The({checkCombat(g1, id) :
            g1 \in {IF g0.ants[id].isPlayer
                    THEN updatePlayer(g0, id, input, step)
                    ELSE updateAI(g0, id, step, wander) :
                        g0 \in {coolDown(g, id, step)}}})

\* WorkerAnt.update(dt, input, game): the cooldowns (g0), then updatePlayer or
\* updateAI (g1), then checkCombat
WorkerUpdate(g, id, input, step, wander) ==
    IF ~g.ants[id].alive THEN g
    ELSE The({checkCombat(g1, id) :
                 g1 \in {IF g0.ants[id].isPlayer
                         THEN updatePlayer(g0, id, input, step)
                         ELSE updateAI(g0, id, step, wander) :
                             g0 \in {coolDown(g, id, step)}}})

\* the places Colony.spawnWorker can put a worker for the random offsets
\* tried: the first tested place that is passable, or the queen's own place
\* when the places tested are not
spawnPlaces(g, q, offsets) ==
    {<<q.x + o[1], q.y + o[2]>> : o \in {o \in offsets : canMove(g.tiles, q.x + o[1], q.y + o[2])}}
    \cup (IF \E o \in offsets : ~canMove(g.tiles, q.x + o[1], q.y + o[2])
          THEN {<<q.x, q.y>>}
          ELSE {})

\* Colony.spawnWorker(game), the worker put at place
spawnWorker(g, c, place) ==
    IF ~g.ants[g.colonies[c].queen].alive THEN g
    ELSE [g EXCEPT !.ants = Append(@, WorkerAnt(place[1], place[2], FALSE, c)),
                   !.colonies[c].workers = Append(@, Len(g.ants) + 1)]

\* a queen that spawns on the timer alone, whatever food the colony has
spawnDueTimerOnly(g, id, step) ==
    LET q == g.ants[id]
        timer == Add(IF IsNum(q.spawnTimer) THEN q.spawnTimer ELSE 0, step)
    IN Ge(timer, spawnCooldown)

\* a queen that spawns as soon as the colony has any food at all
spawnDueAnyFood(g, id, step) ==
    LET q == g.ants[id]
        timer == Add(IF IsNum(q.spawnTimer) THEN q.spawnTimer ELSE 0, step)
    IN Ge(timer, spawnCooldown) /\ g.colonies[q.colony].food > 0

\* does Queen.update spawn a worker on this step
spawnDue(g, id, step) ==
    LET q == g.ants[id]
        timer == Add(IF IsNum(q.spawnTimer) THEN q.spawnTimer ELSE 0, step)
    IN Ge(timer, spawnCooldown) /\ g.colonies[q.colony].food >= foodPerWorker

\* a queen whose timer runs on after a spawn
QueenUpdateKeepTimer(g, id, step, place) ==
    LET q == g.ants[id]
        timer == Add(IF IsNum(q.spawnTimer) THEN q.spawnTimer ELSE 0, step)
    IN IF spawnDue(g, id, step)
       THEN [spawnWorker([g EXCEPT !.colonies[q.colony].food = @ - foodPerWorker],
                         q.colony, place)
                EXCEPT !.ants[id].spawnTimer = timer]
       ELSE [g EXCEPT !.ants[id].spawnTimer = timer]

\* Queen.update(dt, game)
QueenUpdate(g, id, step, place) ==
    LET q == g.ants[id]
        timer == Add(IF IsNum(q.spawnTimer) THEN q.spawnTimer ELSE 0, step)
    IN IF spawnDue(g, id, step)
       THEN [spawnWorker([g EXCEPT !.colonies[q.colony].food = @ - foodPerWorker],
                         q.colony, place)
                EXCEPT !.ants[id].spawnTimer = 0]
       ELSE [g EXCEPT !.ants[id].spawnTimer = timer]

\* the sum of the first n values of a sequence of numbers
RECURSIVE SumTo(_, _)
SumTo(seq, n) == IF n = 0 THEN 0 ELSE seq[n] + SumTo(seq, n - 1)

\* the food an ant carries, none once it is dead
carried(g, id) ==
    IF g.ants[id].alive /\ g.ants[id].carryingFood THEN g.ants[id].foodAmount ELSE 0

\* the food held by a colony of the game: its stockpile and what its workers
\* other than the player carry
colonyFood(g, c) ==
    LET ws == g.colonies[c].workers
    IN g.colonies[c].food
       + SumTo([j \in 1 .. Len(ws) |->
                   IF ws[j] = PlayerId THEN 0 ELSE carried(g, ws[j])], Len(ws))

\* the food in the game: in the food sources, carried by the workers of the
\* colonies and by the player, and in the stockpiles of the colonies
FoodTotal(g) ==
    SumTo([i \in 1 .. Len(g.foodSources) |-> g.foods[g.foodSources[i]].amount],
          Len(g.foodSources))
    + SumTo([i \in 1 .. Len(g.gameColonies) |-> colonyFood(g, g.gameColonies[i])],
            Len(g.gameColonies))
    + carried(g, PlayerId)

NoCursor == [c |-> 0, w |-> 0]
NoProbe == [food |-> 0, ants |-> 0, colonies |-> 0, playerDead |-> FALSE, since |-> << >>]
NoUi == [food |-> 0, workers |-> 0, health |-> 0]

\* no game: the world and the path finder on their own
GameIdle ==
    /\ ants = << >>
    /\ colonies = << >>
    /\ gameColonies = << >>
    /\ foods = << >>
    /\ foodSources = << >>
    /\ ui = NoUi
    /\ cur = NoCursor
    /\ ticks = 0
    /\ probe = NoProbe

-----------------------------------------------------------------------------
(* SpecWorld: world generation, then the frames of the loop, with digTile  *)
(* called at a few sites with the powers a blocked move uses.              *)

\* horizontal tunnels the generator may carve: <<x1, y, x2, width>>
Tunnels == {<<0, 9, 1, 1>>, <<0, 12, 1, 0>>}

\* the places digTile is called at: outside the world, in the sky, in the
\* starting chamber, and in two underground tiles
DigSites == {<<0 - 5, 12 * PosScale + 10>>,
             <<30, 2 * PosScale>>,
             <<(worldWidth \div 2) * PosScale + 5, 12 * PosScale + 10>>,
             <<10, 12 * PosScale + 10>>,
             <<worldWidth * PosScale - 1, 13 * PosScale + 1>>}

DigRates == {8, 10}

NoCall == [op |-> "none"]

InitWorld ==
    /\ tiles = BaseTiles
    /\ applied = << >>
    /\ lastCall = NoCall
    /\ running = FALSE
    /\ lastTime = 0
    /\ dt = 0
    /\ PathIdle
    /\ GameIdle
    /\ pc = "generate"

\* one carveTunnel call of generateCaveSystems
GenCarve(tn) ==
    /\ pc = "generate"
    /\ tiles' = carveTunnel(tiles, tn[1], tn[2], tn[3], tn[4])
    /\ lastCall' = [op |-> "carveTunnel", at |-> tn]
    /\ UNCHANGED <<applied, running, lastTime, dt, pc, pathVars, gameVars>>

\* the end of generateWorld: the starting chamber
GenFinish ==
    /\ pc = "generate"
    /\ tiles' = startChamber(tiles)
    /\ lastCall' = [op |-> "startChamber"]
    /\ pc' = "start"
    /\ UNCHANGED <<applied, running, lastTime, dt, pathVars, gameVars>>

\* start(): running = true, lastTime = performance.now(), then gameLoop()
\* called directly, with no argument: currentTime is undefined
WorldStart ==
    /\ pc = "start"
    /\ running' = TRUE
    /\ dt' = cappedStep(Undefined, 0)
    /\ lastTime' = Undefined
    /\ pc' = "update"
    /\ lastCall' = NoCall
    /\ UNCHANGED <<tiles, applied, pathVars, gameVars>>

\* the next animation frame: gameLoop(currentTime)
WorldFrame(raw) ==
    /\ pc = "update"
    /\ running
    /\ dt' = cappedStep(raw, lastTime)
    /\ lastTime' = 0
    /\ lastCall' = NoCall
    /\ UNCHANGED <<tiles, applied, running, pc, pathVars, gameVars>>

\* one digTile call of the update in progress
WorldDig(site, k) ==
    /\ pc = "update"
    /\ LET tx == Floor(site[1])
           ty == Floor(site[2])
           power == digPower(dt, k)
           r == digTile(tiles, site[1], site[2], power)
           onDirt == /\ isValidTile(tx, ty)
                     /\ ~tiles[ty][tx].dug
                     /\ tiles[ty][tx].type = "dirt"
           key == <<tx, ty>>
           sofar == IF key \in DOMAIN applied THEN applied[key] ELSE 0
       IN /\ tiles' = r.tiles
          /\ applied' = IF onDirt
                         THEN [c \in DOMAIN applied \cup {key} |->
                                  IF c = key THEN sofar + OrZero(power) ELSE applied[c]]
                         ELSE applied
          /\ lastCall' = [op |-> "digTile", at |-> key, power |-> power,
                          onDirt |-> onDirt, ret |-> r.ret]
    /\ UNCHANGED <<running, lastTime, dt, pc, pathVars, gameVars>>

NextWorld ==
    \/ \E tn \in Tunnels : GenCarve(tn)
    \/ GenFinish
    \/ WorldStart
    \/ \E raw \in RawDeltas : WorldFrame(raw)
    \/ \E site \in DigSites, k \in DigRates : WorldDig(site, k)

SpecWorld == InitWorld /\ [][NextWorld]_vars

Rows == 0 .. worldHeight - 1
Cols == 0 .. worldWidth - 1

\* a tile that digTile was called on while it was dirt is dug exactly when the
\* power applied to it has reached its hardness
DugExactlyAtHardness ==
    \A key \in DOMAIN applied :
        tiles[key[2]][key[1]].dug <=> applied[key] >= Hardness(key[2])

\* no step lowers the dig progress of a tile
ProgressNeverDecreases ==
    \A y \in Rows, x \in Cols :
        ~Lt(tiles'[y][x].digProgress, tiles[y][x].digProgress)

\* C4. Dig monotonicity: over any sequence of digTile calls on a dirt tile the
\* dig progress never decreases, and the tile is dug from exactly the first call
\* on which the power applied to it so far is at least its hardness.
C4_DigMonotonicity ==
    []DugExactlyAtHardness /\ [][ProgressNeverDecreases]_vars

\* a tile opened by a digTile call that needed the progress of earlier calls
C4_Witness ==
    /\ lastCall.op = "digTile"
    /\ lastCall.ret
    /\ Lt(lastCall.power, Hardness(lastCall.at[2]))
    /\ tiles[lastCall.at[2]][lastCall.at[1]].dug

\* C5. Tile invariant: after generation and after any digTile calls, a tile is
\* dug exactly when its type is air.
C5_TileInvariant ==
    \A y \in Rows, x \in Cols : tiles[y][x].dug <=> tiles[y][x].type = "air"

\* digTile has opened a tile of a world in which the generator carved a
\* tunnel outside the starting chamber
C5_Witness ==
    /\ lastCall.op = "digTile"
    /\ lastCall.ret
    /\ tiles[12][0].dug
    /\ tiles[12][0].digProgress = Undefined

\* the tile the digTile call of the step is aimed at is outside the world, is
\* dug already, or is not dirt
DigInvalid ==
    LET c == lastCall'.at
    IN \/ ~isValidTile(c[1], c[2])
       \/ tiles[c[2]][c[1]].dug
       \/ tiles[c[2]][c[1]].type # "dirt"

\* C24. digTile is a no-op on invalid targets: a call whose floored
\* coordinates are out of bounds, or whose tile is already dug or is not dirt,
\* returns false and leaves every tile unchanged; and any call changes at most
\* the tile at the floored coordinates.
C24_DigNoOpOnInvalid ==
    [][lastCall'.op = "digTile"
       => /\ \A y \in Rows, x \in Cols :
                <<x, y>> # lastCall'.at => tiles'[y][x] = tiles[y][x]
          /\ DigInvalid => (tiles' = tiles /\ ~lastCall'.ret)]_vars

\* digTile was called left of the world, on tile column -1 of a dirt row
C24_Witness ==
    /\ lastCall.op = "digTile"
    /\ lastCall.at[1] < 0
    /\ ~lastCall.ret

\* C3. Time-step clamp: every call of Game.update(dt) issued by the game
\* loop, from the first frame started by start() onward, receives a numeric dt
\* with 0 <= dt <= 0.1.
C3_StepClamped ==
    (pc = "update" /\ running) => (IsNum(dt) /\ dt >= 0 /\ dt <= MaxStep)

-----------------------------------------------------------------------------
(* SpecGame: the multi-faction game, one Game.update after another.  An    *)
(* update is walked through in the order of its code: the player, then for *)
(* each colony its queen, its workers and the removal of its dead workers, *)
(* then the removals and the UI update that end the update.                *)

\* the number of updates followed from an initial state
MaxTicks == 3

\* real time between two animation frames of the game
FrameDeltas == {1, 3}

\* what getInput returns for the keys held: <<x, y>>
Inputs == {<<0, 0>>, <<1, 0>>, <<0 - 1, 0>>}

\* (Math.random() - 0.5) * 5 for both coordinates of a wander target
WanderOffsets == {<<0 - 40, 0>>, <<30, 10>>}

\* (Math.random() - 0.5) * 2 for both coordinates of a spawn place
SpawnOffsets == {<<0 - 15, 0>>, <<15, 5>>}

\* the world of the game: the starting chamber and a tunnel that leaves row 12
\* open from the left edge to the chamber, with dirt right of the chamber
GameTiles == startChamber(carveTunnel(BaseTiles, 0, 12, 1, 0))

\* a worker that was updated on the first two frames, whose dt is NaN
Veteran(w) ==
    [w EXCEPT !.digCooldown = NaN, !.attackCooldown = NaN, !.stateTimer = NaN]

\* places of the queens: the player's at (worldWidth / 2, 12), the nests of
\* the other colonies at tile centres
QueenP == Queen((worldWidth \div 2) * PosScale, 12 * PosScale, 1)
QueenA == Queen(PosScale \div 2, 12 * PosScale + PosScale \div 2, 2)
QueenB == Queen(PosScale + PosScale \div 2, 12 * PosScale + PosScale \div 2, 3)

\* Game.updateUI: the food and the worker count of the player's colony, and
\* the health of the player
updateUI(g) ==
    LET i == FirstTrue([k \in 1 .. Len(g.gameColonies) |->
                           g.colonies[g.gameColonies[k]].isPlayer])
    IN [food |-> IF i = 0 THEN 0 ELSE g.colonies[g.gameColonies[i]].food,
        workers |-> IF i = 0 THEN 0 ELSE Len(g.colonies[g.gameColonies[i]].workers),
        health |-> g.ants[PlayerId].health]

\* a state of a game in progress, between two frames
MidGame(as, cs, gcs, fs) ==
    [pc |-> "idle", running |-> TRUE, ants |-> as, colonies |-> cs,
     gameColonies |-> gcs, foods |-> fs,
     ui |-> updateUI([ants |-> as, colonies |-> cs, gameColonies |-> gcs])]

\* the state Game.init leaves before start(): two nests next to each other,
\* each with its worker, then the player's colony
SceneFresh ==
    [pc |-> "boot", running |-> FALSE,
     ants |-> <<WorkerAnt(QueenP.x + PosScale, QueenP.y, TRUE, 1), QueenP,
                QueenA, WorkerAnt(QueenA.x + 20, QueenA.y, FALSE, 2),
                QueenB, WorkerAnt(QueenB.x + 20, QueenB.y, FALSE, 3)>>,
     colonies |-> <<Colony(0, TRUE, 2, <<1>>, 0), Colony(1, FALSE, 3, <<4>>, 0),
                    Colony(2, FALSE, 5, <<6>>, 0)>>,
     gameColonies |-> <<2, 3, 1>>,
     foods |-> <<FoodSource(150, 250, 50)>>,
     ui |-> NoUi]

\* a worker spawned by the queen of colony c, some updates ago
Spawned(x, y, c, target) ==
    [WorkerAnt(x, y, FALSE, c) EXCEPT !.stateTimer = 0 - 40, !.targetFood = target]

\* the player, hurt and carrying food, with a spawned worker of colony A next
\* to it and a spawned worker of its own colony nearby
SceneRaid ==
    MidGame(<<[Veteran(WorkerAnt(160, 240, TRUE, 1)) EXCEPT
                  !.health = 10, !.carryingFood = TRUE, !.foodAmount = 15],
              QueenP,
              [QueenA EXCEPT !.spawnTimer = 30],
              [Veteran(WorkerAnt(30, 250, FALSE, 2)) EXCEPT !.targetFood = 1],
              [Spawned(175, 240, 2, 1) EXCEPT !.health = 15],
              Spawned(150, 240, 1, 1)>>,
            <<Colony(0, TRUE, 2, <<1, 6>>, 0), Colony(1, FALSE, 3, <<4, 5>>, 3)>>,
            <<2, 1>>,
            <<FoodSource(60, 250, 30)>>)

\* the queen of colony A about to fall to a spawned worker of the player's
\* colony, while colony A holds food; a spawned worker of colony B at the
\* player's queen, whose health is hp
SceneSiege(hp) ==
    MidGame(<<Veteran(WorkerAnt(160, 240, TRUE, 1)),
              [QueenP EXCEPT !.health = hp, !.spawnTimer = 50],
              [QueenA EXCEPT !.health = 10, !.spawnTimer = 50],
              [Veteran(WorkerAnt(60, 250, FALSE, 2)) EXCEPT
                  !.carryingFood = TRUE, !.foodAmount = 5, !.targetFood = 1,
                  !.pathRecalcTimer = PathRecalc],
              [QueenB EXCEPT !.spawnTimer = 50],
              [Veteran(WorkerAnt(50, 250, FALSE, 3)) EXCEPT !.targetFood = 1],
              Spawned(12, 250, 1, 1),
              Spawned(110, 240, 3, 1)>>,
            <<Colony(0, TRUE, 2, <<1, 7>>, 0), Colony(1, FALSE, 3, <<4>>, 5),
              Colony(2, FALSE, 5, <<6, 8>>, 0)>>,
            <<2, 3, 1>>,
            <<FoodSource(150, 270, 50)>>)

\* queens whose spawn timers are about to reach or are past the cooldown, one
\* with the food for a worker, one short of it with a delivery on its way
SceneSpawn ==
    MidGame(<<Veteran(WorkerAnt(120, 240, TRUE, 1)),
              [QueenP EXCEPT !.spawnTimer = spawnCooldown - 2],
              [QueenA EXCEPT !.spawnTimer = spawnCooldown + 50],
              [Veteran(WorkerAnt(63, 250, FALSE, 2)) EXCEPT
                  !.carryingFood = TRUE, !.foodAmount = 5, !.targetFood = 1,
                  !.pathRecalcTimer = PathRecalc]>>,
            <<Colony(0, TRUE, 2, <<1>>, foodPerWorker), Colony(1, FALSE, 3, <<4>>, 10)>>,
            <<2, 1>>,
            <<FoodSource(150, 250, 50)>>)

\* the player next to the dirt right of the chamber, and a spawned worker of
\* its colony on its way to the last food of the world
SceneForage ==
    MidGame(<<Veteran(WorkerAnt(176, 240, TRUE, 1)),
              [QueenP EXCEPT !.spawnTimer = 50],
              Spawned(144, 250, 1, 1)>>,
            <<Colony(0, TRUE, 2, <<1, 3>>, 0)>>,
            <<1>>,
            <<FoodSource(120, 250, 4)>>)

\* a spawned worker of the player's colony at the left wall of the chamber,
\* just above the row of the tunnel, heading for food in the tunnel at a
\* shallow angle
SceneCorner ==
    MidGame(<<Veteran(WorkerAnt(120, 240, TRUE, 1)),
              [QueenP EXCEPT !.spawnTimer = 50],
              Spawned(2 * PosScale, 12 * PosScale - 1, 1, 1)>>,
            <<Colony(0, TRUE, 2, <<1, 3>>, 0)>>,
            <<1>>,
            <<FoodSource(7, 12 * PosScale + 2, 30)>>)

\* a spawned worker of the player's colony in the tunnel of colony A, with a
\* worker of colony A and the queen of colony A both within its attack range,
\* the queen the nearer of the two; the worker has no food target yet, and of
\* the three food sources the second and the third are equally far from it
SceneMelee ==
    MidGame(<<Veteran(WorkerAnt(120, 240, TRUE, 1)),
              [QueenP EXCEPT !.spawnTimer = 50],
              [QueenA EXCEPT !.spawnTimer = 50],
              [Spawned(8, 250, 2, 1) EXCEPT
                  !.carryingFood = TRUE, !.foodAmount = 5,
                  !.pathRecalcTimer = PathRecalc],
              Spawned(30, 250, 1, 0)>>,
            <<Colony(0, TRUE, 2, <<1, 5>>, 0), Colony(1, FALSE, 3, <<4>>, 0)>>,
            <<2, 1>>,
            <<FoodSource(150, 250, 50), FoodSource(90, 250, 50), FoodSource(30, 190, 50)>>)

\* the player's queen one step short of its cooldown with food for three
\* workers, and the queen of colony A, long past its cooldown, waiting for
\* food that its worker is about to deliver
SceneBrood ==
    MidGame(<<Veteran(WorkerAnt(120, 240, TRUE, 1)),
              [QueenP EXCEPT !.spawnTimer = spawnCooldown - 1],
              [QueenA EXCEPT !.spawnTimer = spawnCooldown + 50],
              [Spawned(40, 250, 2, 1) EXCEPT
                  !.carryingFood = TRUE, !.foodAmount = 10,
                  !.pathRecalcTimer = PathRecalc]>>,
            <<Colony(0, TRUE, 2, <<1>>, 3 * foodPerWorker), Colony(1, FALSE, 3, <<4>>, 10)>>,
            <<2, 1>>,
            <<FoodSource(150, 250, 50)>>)

Scenes ==
    {SceneFresh, SceneRaid, SceneSiege(10), SceneSiege(200), SceneSpawn, SceneForage,
     SceneCorner, SceneMelee, SceneBrood}

InitGame ==
    /\ \E s \in Scenes :
          /\ pc = s.pc
          /\ running = s.running
          /\ ants = s.ants
          /\ colonies = s.colonies
          /\ gameColonies = s.gameColonies
          /\ foods = s.foods
          /\ foodSources = [i \in 1 .. Len(s.foods) |-> i]
          /\ ui = s.ui
          /\ probe = [NoProbe EXCEPT !.since =
                         [c \in DOMAIN s.colonies |->
                             OrZero(s.ants[s.colonies[c].queen].spawnTimer)]]
    /\ tiles = GameTiles
    /\ applied = << >>
    /\ lastCall = NoCall
    /\ lastTime = 0
    /\ dt = 0
    /\ PathIdle
    /\ cur = NoCursor
    /\ ticks = 0

\* the objects of g become the objects of the game
Commit(g) ==
    /\ tiles' = g.tiles
    /\ ants' = g.ants
    /\ colonies' = g.colonies
    /\ gameColonies' = g.gameColonies
    /\ foods' = g.foods
    /\ foodSources' = g.foodSources

\* an update that lets the game run on when the player is dead
runningAfterPlayerIgnored(alive, wasRunning) == wasRunning

\* Game.update, lines 3663-3669: Game.running after the player's branch
runningAfterPlayer(alive, wasRunning) == IF alive THEN wasRunning ELSE FALSE

\* gameLoop has called update(dt)
BeginUpdate ==
    /\ ticks' = ticks + 1
    /\ probe' = [food |-> FoodTotal(World), ants |-> Len(ants),
                 colonies |-> Len(gameColonies), playerDead |-> ~ants[PlayerId].alive,
                 since |-> [c \in DOMAIN probe.since |-> probe.since[c] + OrZero(dt')]]
    /\ pc' = "player"
    /\ lastCall' = IF lastCall.op = "findPath"
                   THEN [lastCall EXCEPT !.since = @ + OrZero(dt')]
                   ELSE lastCall
    /\ UNCHANGED <<tiles, ants, colonies, gameColonies, foods, foodSources, ui, cur,
                   applied, pathVars>>

\* start(): running = true, then gameLoop() with no argument
GameStart ==
    /\ pc = "boot"
    /\ running' = TRUE
    /\ dt' = cappedStep(Undefined, 0)
    /\ lastTime' = Undefined
    /\ BeginUpdate

\* gameLoop(currentTime) on an animation frame, raw after the previous one
GameFrame(raw) ==
    /\ pc = "idle"
    /\ running
    /\ ticks < MaxTicks
    /\ dt' = cappedStep(raw, lastTime)
    /\ lastTime' = 0
    /\ UNCHANGED running
    /\ BeginUpdate

\* Game.update, lines 3660-3669: the player's update, or the game over
PlayerStep(input) ==
    /\ pc = "player"
    /\ IF ants[PlayerId].alive
       THEN \E g \in {WorkerUpdate(World, PlayerId, input, dt, <<0, 0>>)} : Commit(g)
       ELSE UNCHANGED <<tiles, ants, colonies, gameColonies, foods, foodSources>>
    /\ running' = runningAfterPlayer(ants[PlayerId].alive, running)
    /\ cur' = [c |-> 1, w |-> 0]
    /\ pc' = IF Len(gameColonies) = 0 THEN "cleanup" ELSE "colony"
    /\ UNCHANGED <<lastTime, dt, ui, ticks, probe, applied, lastCall, pathVars>>

\* Colony.update, lines 3041-3044: the queen's update
QueenStep ==
    /\ pc = "colony"
    /\ cur.w = 0
    /\ LET q == colonies[gameColonies[cur.c]].queen
       IN IF ants[q].alive
          THEN \E place \in (IF spawnDue(World, q, dt)
                             THEN spawnPlaces(World, ants[q], SpawnOffsets)
                             ELSE {<<0, 0>>}) :
                   \E g \in {QueenUpdate(World, q, dt, place)} :
                       /\ Commit(g)
                       /\ probe' = IF Len(g.ants) > Len(ants)
                                   THEN [probe EXCEPT !.since[gameColonies[cur.c]] = 0]
                                   ELSE probe
          ELSE UNCHANGED <<tiles, ants, colonies, gameColonies, foods, foodSources, probe>>
    /\ cur' = [cur EXCEPT !.w = 1]
    /\ UNCHANGED <<running, lastTime, dt, ui, ticks, pc, applied, lastCall, pathVars>>

\* does the AI worker pick a new wander target on this update
wanders(g, id, step) ==
    LET a == g.ants[id]
    IN /\ a.alive
       /\ ~a.carryingFood
       /\ (a.targetFood = 0 \/ g.foods[a.targetFood].amount = 0)
       /\ nearestFood(g, a.x, a.y) = 0
       /\ Le(Sub(a.stateTimer, step), 0)

\* Colony.update, lines 3047-3051: the update of the next worker of the colony
WorkerStep ==
    /\ pc = "colony"
    /\ cur.w >= 1
    /\ cur.w <= Len(colonies[gameColonies[cur.c]].workers)
    /\ LET w == colonies[gameColonies[cur.c]].workers[cur.w]
       IN IF ~ants[w].isPlayer
          THEN \E wander \in (IF wanders(World, w, dt) THEN WanderOffsets ELSE {<<0, 0>>}) :
                   \E g \in {WorkerUpdate(World, w, <<0, 0>>, dt, wander)} : Commit(g)
          ELSE UNCHANGED <<tiles, ants, colonies, gameColonies, foods, foodSources>>
    /\ cur' = [cur EXCEPT !.w = @ + 1]
    /\ lastCall' = (LET w == colonies[gameColonies[cur.c]].workers[cur.w]
                    IN IF callsFindPath(ants[w], dt)
                       THEN [op |-> "findPath", by |-> w, since |-> 0]
                       ELSE lastCall)
    /\ UNCHANGED <<running, lastTime, dt, ui, ticks, probe, pc, applied, pathVars>>

\* an update that lets the game run on when the player's queen is dead
runningAfterColonyIgnored(isPlayer, q, wasRunning) == wasRunning

\* Game.update, lines 3675-3679: Game.running after the update of a colony
\* with queen q
runningAfterColony(isPlayer, q, wasRunning) ==
    IF isPlayer /\ (~q.alive \/ q.health <= 0) THEN FALSE ELSE wasRunning

\* Colony.update, lines 3054-3058, and Game.update, lines 3675-3679: the dead
\* workers leave the colony, and the death of the player's queen ends the game
ColonyFinish ==
    /\ pc = "colony"
    /\ cur.w > Len(colonies[gameColonies[cur.c]].workers)
    /\ LET c == gameColonies[cur.c]
           q == ants[colonies[c].queen]
       IN /\ colonies' = [colonies EXCEPT ![c].workers =
                             SelectSeq(@, LAMBDA w : ants[w].alive)]
          /\ running' = runningAfterColony(colonies[c].isPlayer, q, running)
    /\ IF cur.c < Len(gameColonies)
       THEN cur' = [c |-> cur.c + 1, w |-> 0] /\ pc' = "colony"
       ELSE cur' = NoCursor /\ pc' = "cleanup"
    /\ UNCHANGED <<tiles, ants, gameColonies, foods, foodSources, lastTime, dt, ui,
                   ticks, probe, applied, lastCall, pathVars>>

\* Game.update, lines 3682-3711: the colonies whose queen is dead and the
\* empty food sources leave the game, then updateUI
UpdateEnd ==
    /\ pc = "cleanup"
    /\ gameColonies' = SelectSeq(gameColonies, LAMBDA c : ants[colonies[c].queen].alive)
    /\ foodSources' = SelectSeq(foodSources, LAMBDA f : foods[f].amount > 0)
    /\ ui' = updateUI([ants |-> ants, colonies |-> colonies, gameColonies |-> gameColonies'])
    /\ pc' = "idle"
    /\ UNCHANGED <<tiles, ants, colonies, foods, running, lastTime, dt, cur, ticks, probe,
                   applied, lastCall, pathVars>>

NextGame ==
    \/ GameStart
    \/ \E raw \in FrameDeltas : GameFrame(raw)
    \/ \E input \in Inputs : PlayerStep(input)
    \/ QueenStep
    \/ WorkerStep
    \/ ColonyFinish
    \/ UpdateEnd

SpecGame == InitGame /\ [][NextGame]_vars

\* the ants in the game: the queens and the workers of the colonies of
\* Game.colonies
InGame(e) ==
    \E i \in 1 .. Len(gameColonies) :
        \/ colonies[gameColonies[i]].queen = e
        \/ \E j \in 1 .. Len(colonies[gameColonies[i]].workers) :
               colonies[gameColonies[i]].workers[j] = e

\* the worker whose update the next step of the game runs, 0 if it runs none
Updating ==
    IF pc = "player"
    THEN (IF ants[PlayerId].alive THEN PlayerId ELSE 0)
    ELSE IF pc = "colony" /\ cur.w >= 1
            /\ cur.w <= Len(colonies[gameColonies[cur.c]].workers)
         THEN (LET w == colonies[gameColonies[cur.c]].workers[cur.w]
               IN IF ants[w].alive /\ ~ants[w].isPlayer THEN w ELSE 0)
         ELSE 0

\* C1. Food conservation: in any Game.update in which no queen spawns a worker,
\* the food in the food sources plus the food carried by the agents plus the
\* food in the stockpiles of the colonies is the same after the update as
\* before it.
C1_FoodConserved ==
    (pc = "idle" /\ ticks > 0 /\ Len(ants) = probe.ants)
    => FoodTotal(World) = probe.food

\* e is a living ant of the game that belongs to another faction than a
HostileTo(a, e) ==
    /\ e # a
    /\ ants[e].alive
    /\ InGame(e)
    /\ colonies[ants[e].colony].factionId # colonies[ants[a].colony].factionId

\* e is within the attack range of a when a's update checks for combat (a
\* has moved by then, e has not)
InReach(a, e) ==
    Nearer(ants'[a].x, ants'[a].y, ants[e].x, ants[e].y, AttackRange)

\* the ants whose health the step changes
Hurt == {e \in DOMAIN ants : ants'[e].health # ants[e].health}

\* an update of a with cooldown 0 and a hostile in reach hits exactly one
\* hostile in reach, with the damage fixed for the pair, and sets the
\* cooldown of a alone
OneHit(a) ==
    (StrictEq(ants[a].attackCooldown, 0) /\ \E e \in DOMAIN ants : HostileTo(a, e) /\ InReach(a, e))
    => /\ \E e \in DOMAIN ants :
             /\ HostileTo(a, e) /\ InReach(a, e)
             /\ Hurt = {e}
             /\ LET d == IF ants[e].kind = "queen"
                         THEN (IF ants[a].isPlayer THEN 20 ELSE 10)
                         ELSE (IF ants[a].isPlayer THEN 30 ELSE 15)
                IN ants'[e].health = (IF ants[e].health > d THEN ants[e].health - d ELSE 0)
       /\ ants'[a].attackCooldown = AttackCooldown
       /\ \A b \in DOMAIN ants : b # a => ants'[b].attackCooldown = ants[b].attackCooldown

\* an update of a that ends before its cooldown has elapsed hurts nobody
NoHitWhileCooling(a) ==
    Gt(Sub(ants[a].attackCooldown, dt), 0) => Hurt = {}

\* C7. Combat resolution: when an attacker with attack cooldown 0 is updated
\* while a living hostile is within its attack range, that update applies
\* exactly one hit of the attacker's fixed damage to exactly one defender and
\* sets only the attacker's cooldown; every further update of the attacker
\* before the cooldown has fully elapsed applies no damage to anyone.
C7_CombatResolution ==
    [][Updating # 0 => (OneHit(Updating) /\ NoHitWhileCooling(Updating))]_vars

\* the colony whose queen the next step of the game updates, 0 if it updates none
QueenUpdating ==
    IF pc = "colony" /\ cur.w = 0 /\ ants[colonies[gameColonies[cur.c]].queen].alive
    THEN gameColonies[cur.c]
    ELSE 0

\* the update of the queen of colony c spawns exactly when the timer, dt
\* added, has reached the cooldown and the colony has the food for a worker
SpawnExact(c) ==
    LET q == colonies[c].queen
        timer == Add(IF IsNum(ants[q].spawnTimer) THEN ants[q].spawnTimer ELSE 0, dt)
    IN IF Ge(timer, 10 * 20) /\ colonies[c].food >= 20
       THEN /\ Len(ants') = Len(ants) + 1
            /\ colonies'[c].workers = Append(colonies[c].workers, Len(ants) + 1)
            /\ ants'[Len(ants) + 1].kind = "worker"
            /\ ants'[Len(ants) + 1].colony = c
            /\ colonies'[c].food = colonies[c].food - 20
            /\ ants'[q].spawnTimer = 0
            /\ \A o \in DOMAIN colonies : o # c => colonies'[o] = colonies[o]
       ELSE /\ Len(ants') = Len(ants)
            /\ colonies' = colonies

\* a step that is not the update of a queen adds no worker to any colony
NoSpawnElsewhere ==
    /\ Len(ants') = Len(ants)
    /\ \A c \in DOMAIN colonies : Len(colonies'[c].workers) <= Len(colonies[c].workers)

\* C8. Spawn economics: when a living queen's spawnTimer, dt added, is >=
\* spawnCooldown and her colony's food is >= foodPerWorker, exactly one new
\* worker is added to that colony, the colony's food decreases by exactly
\* foodPerWorker and spawnTimer is reset to 0; when either condition fails, no
\* worker is added and the food is not spent.
C8_SpawnEconomics ==
    [][IF QueenUpdating # 0 THEN SpawnExact(QueenUpdating) ELSE NoSpawnElsewhere]_vars

\* in one update a queen past her cooldown has refused to spawn for lack of
\* food, and the player's queen has just spawned a worker with the last food
C8_Witness ==
    /\ pc = "colony"
    /\ cur.w = 1
    /\ colonies[gameColonies[cur.c]].isPlayer
    /\ Len(ants) = probe.ants + 1
    /\ ants[Len(ants)].colony = gameColonies[cur.c]
    /\ colonies[gameColonies[cur.c]].food = 0
    /\ \E c \in DOMAIN colonies :
          /\ ~colonies[c].isPlayer
          /\ Ge(ants[colonies[c].queen].spawnTimer, spawnCooldown)
          /\ colonies[c].food < foodPerWorker

\* an update that begins with the player at health 0 sets running to false
StoppedOnDeath ==
    (pc = "player" /\ ants[PlayerId].health = 0) => ~running'

\* nothing sets running again once the game has stopped
StaysStopped ==
    (~running /\ pc # "boot") => ~running'

\* once at health 0 the player changes no more, and the step that would have
\* been its update changes nothing in the world
DeadPlayerInert ==
    ants[PlayerId].health = 0
    => /\ ants'[PlayerId] = ants[PlayerId]
       /\ (pc = "player" => UNCHANGED <<tiles, ants, colonies, gameColonies, foods, foodSources>>)

\* the loop begins no update while running is false
NoUpdateWhenStopped ==
    (pc = "idle" /\ ~running) => (ticks' = ticks /\ pc' = "idle")

\* C10. Game over on player death: once the player's health reaches 0,
\* Game.running becomes false no later than the next Game.update, the player
\* performs no further action, and no Game.update is executed by the game loop
\* after running is false.
C10_GameOverOnPlayerDeath ==
    [][StoppedOnDeath /\ StaysStopped /\ DeadPlayerInert /\ NoUpdateWhenStopped]_vars

\* the player was killed, the next update has stopped the game
C10_Witness ==
    /\ pc = "idle"
    /\ ants[PlayerId].health = 0
    /\ ~ants[PlayerId].alive
    /\ probe.playerDead
    /\ ~running

-----------------------------------------------------------------------------
(* SpecDamage: sequences of takeDamage calls on the agents of a colony      *)

\* the amounts of the calls: none, the hits of checkCombat, and an overkill
DamageAmounts == {0, 15, 30, 250}

\* food sources a dead carrier may leave behind before the calls stop
MaxDrops == 2

\* a worker carrying food and its queen
InitDamage ==
    /\ ants = <<[WorkerAnt(QueenP.x + PosScale, QueenP.y, TRUE, 1) EXCEPT
                    !.carryingFood = TRUE, !.foodAmount = PlayerCarry],
                QueenP>>
    /\ colonies = <<Colony(0, TRUE, 2, <<1>>, 0)>>
    /\ gameColonies = <<1>>
    /\ foods = << >>
    /\ foodSources = << >>
    /\ ui = NoUi
    /\ tiles = GameTiles
    /\ applied = << >>
    /\ lastCall = NoCall
    /\ running = FALSE
    /\ lastTime = 0
    /\ dt = 0
    /\ PathIdle
    /\ cur = NoCursor
    /\ ticks = 0
    /\ probe = NoProbe
    /\ pc = "damage"

\* one call takeDamage(amount, game) or takeDamage(amount) on agent id
DamageCall(id, amount, withGame) ==
    /\ pc = "damage"
    /\ Len(foods) < MaxDrops
    /\ \E g \in {takeDamage(World, id, amount, withGame)} : Commit(g)
    /\ lastCall' = [op |-> "takeDamage", id |-> id, amount |-> amount,
                    before |-> ants[id].health]
    /\ UNCHANGED <<applied, loopVars, pathVars, ui, cur, ticks, probe, pc>>

NextDamage ==
    \E id \in DOMAIN ants, amount \in DamageAmounts, withGame \in BOOLEAN :
        DamageCall(id, amount, withGame)

SpecDamage == InitDamage /\ [][NextDamage]_vars

\* health is within [0, maxHealth], and an agent is dead exactly at health 0
HealthClamped ==
    \A i \in DOMAIN ants :
        /\ ants[i].health >= 0
        /\ ants[i].health <= ants[i].maxHealth
        /\ ~ants[i].alive <=> ants[i].health = 0

\* a dead agent stays dead
NoResurrection ==
    \A i \in DOMAIN ants : (i \in DOMAIN ants' /\ ~ants[i].alive) => ~ants'[i].alive

\* C6. Health clamp: after any sequence of takeDamage calls with non-negative
\* amounts on any agent, 0 <= health <= maxHealth holds; alive is false exactly
\* when health = 0; and once alive is false it never becomes true again.
C6_HealthClamp ==
    /\ []HealthClamped
    /\ [][NoResurrection]_vars

\* a hit larger than the health that was left has killed an agent, and its
\* health is 0
C6_Witness ==
    /\ lastCall.op = "takeDamage"
    /\ lastCall.before > 0
    /\ lastCall.amount > lastCall.before
    /\ ants[lastCall.id].health = 0
    /\ ~ants[lastCall.id].alive

-----------------------------------------------------------------------------
(* SpecSingle: the loop of the single-colony game, src/game.js, and what    *)
(* its queen reads: the time steps and Game.colonyFood. colonies[1].food is *)
(* Game.colonyFood, colonies[1].workers is Game.workers, ants[1] the player *)
(* and ants[2] the queen. lastCall.since is the simulated time passed to    *)
(* update since the queen's previous spawn or the start; a step that is not *)
(* a number adds nothing to it. ants[3] is an enemy ant of Game.enemies; the *)
(* places of the ants are left out, and which ant an enemy finds within its *)
(* attack range is an input of its update.                                   *)

\* food a worker delivers with one addFood call: Math.min(10, food.amount)
SingleCarry == 10

\* the deliveries of one update: none or one load
Deliveries == {0, SingleCarry}

\* the stockpile above which the workers of the model deliver no more
MaxColonyFood == 2 * foodPerWorker

\* simulated time after which the frames of the model stop
SingleHorizon == spawnCooldown + 2 * MaxStep

\* where spawnWorker puts the worker: queen + (Math.random() - 0.5)
SingleOffsets == {<<0 - (PosScale \div 2), 0>>, <<PosScale \div 4, PosScale \div 4>>}

\* Queen.update of src/game.js, line 1075: this.spawnTimer += dt
singleTimer(timer, step) == Add(timer, step)

\* Queen.update(dt, game) of src/game.js with Game.spawnWorker
singleQueenUpdate(g, step, offset) ==
    LET q == g.ants[2]
        timer == singleTimer(q.spawnTimer, step)
    IN IF Ge(timer, spawnCooldown) /\ g.colonies[1].food >= foodPerWorker
       THEN [g EXCEPT !.colonies[1].food = @ - foodPerWorker,
                      !.colonies[1].workers = Append(@, Len(g.ants) + 1),
                      !.ants = Append([@ EXCEPT ![2].spawnTimer = 0],
                                      WorkerAnt(q.x + offset[1], q.y + offset[2], FALSE, 1))]
       ELSE [g EXCEPT !.ants[2].spawnTimer = timer]

\* new EnemyAnt(x, y, nestX, nestY, nestRadius) of src/game.js
EnemyAnt(x, y) == [WorkerAnt(x, y, FALSE, 0) EXCEPT !.kind = "enemy"]

\* damage and cooldown (one second) of an enemy's attack
EnemyDamage == 5
EnemyCooldown == 20

\* the ants an enemy may find nearest within its attack range: none, the
\* player or the queen
EnemyTargets == {0, 1, 2}

\* EnemyAnt.update(dt, input, game) of src/game.js for enemy id with target
\* nearest within attack range (0 for none)
singleEnemyUpdate(g, id, step, target) ==
    IF ~g.ants[id].alive THEN g
    ELSE The({IF target # 0 /\ g0.ants[target].alive /\ StrictEq(g0.ants[id].attackCooldown, 0)
              THEN [takeDamage(g0, target, EnemyDamage, FALSE)
                       EXCEPT !.ants[id].attackCooldown = EnemyCooldown]
              ELSE g0 :
                 g0 \in {[g EXCEPT !.ants[id].attackCooldown = MathMax(0, Sub(@, step)),
                                   !.ants[id].stateTimer = Sub(@, step)]}})

\* the state init() leaves before start()
InitSingle ==
    /\ ants = <<WorkerAnt(QueenP.x + PosScale, QueenP.y, TRUE, 1), QueenP,
                EnemyAnt(QueenP.x + 2 * PosScale, QueenP.y)>>
    /\ colonies = <<Colony(0, TRUE, 2, << >>, 0)>>
    /\ gameColonies = <<1>>
    /\ foods = << >>
    /\ foodSources = << >>
    /\ ui = NoUi
    /\ tiles = GameTiles
    /\ applied = << >>
    /\ lastCall = [op |-> "single", since |-> 0]
    /\ running = FALSE
    /\ lastTime = 0
    /\ dt = 0
    /\ PathIdle
    /\ cur = NoCursor
    /\ ticks = 0
    /\ probe = NoProbe
    /\ pc = "single-boot"

\* start() of src/game.js: running = true, then gameLoop() with no argument
SingleStart ==
    /\ pc = "single-boot"
    /\ running' = TRUE
    /\ dt' = cappedStep(Undefined, 0)
    /\ lastTime' = Undefined
    /\ pc' = "single-player"
    /\ UNCHANGED <<tiles, applied, lastCall, pathVars, gameVars>>

\* gameLoop(currentTime) of src/game.js on an animation frame
SingleFrame(raw) ==
    /\ pc = "single-idle"
    /\ running
    /\ lastCall.since < SingleHorizon
    /\ dt' = cappedStep(raw, lastTime)
    /\ lastTime' = 0
    /\ lastCall' = [lastCall EXCEPT !.since = IF IsNum(dt') THEN @ + dt' ELSE @]
    /\ pc' = "single-player"
    /\ UNCHANGED <<tiles, applied, running, pathVars, gameVars>>

\* update of src/game.js, lines 331-340: the player's update, of which the
\* model keeps the addFood call, or the game over
SinglePlayerStep(delivered) ==
    /\ pc = "single-player"
    /\ colonies[1].food + delivered <= MaxColonyFood
    /\ IF ants[PlayerId].alive
       THEN colonies' = [colonies EXCEPT ![1].food = @ + delivered]
       ELSE UNCHANGED colonies
    /\ running' = runningAfterPlayer(ants[PlayerId].alive, running)
    /\ pc' = "single-queen"
    /\ UNCHANGED <<tiles, applied, lastCall, lastTime, dt, pathVars,
                   ants, gameColonies, foods, foodSources, ui, cur, ticks, probe>>

\* update of src/game.js, lines 343-345: the queen's update
SingleQueenStep ==
    /\ pc = "single-queen"
    /\ \E offset \in SingleOffsets :
          \E g \in {singleQueenUpdate(World, dt, offset)} :
              /\ Commit(g)
              /\ lastCall' = [lastCall EXCEPT
                                 !.since = IF Len(g.ants) > Len(ants) THEN 0 ELSE @]
    /\ pc' = "single-workers"
    /\ UNCHANGED <<applied, loopVars, pathVars, ui, cur, ticks, probe>>

\* update of src/game.js, lines 350-351: the updates of the AI workers, of
\* which the model keeps the addFood calls
SingleWorkersStep(delivered) ==
    /\ pc = "single-workers"
    /\ colonies[1].food + delivered <= MaxColonyFood
    /\ delivered > 0 => Len(colonies[1].workers) > 0
    /\ colonies' = [colonies EXCEPT ![1].food = @ + delivered]
    /\ pc' = "single-enemies"
    /\ UNCHANGED <<tiles, applied, lastCall, loopVars, pathVars,
                   ants, gameColonies, foods, foodSources, ui, cur, ticks, probe>>

\* update of src/game.js, lines 353-378: the update of the enemy, and the end
\* of the update
SingleEnemiesStep(target) ==
    /\ pc = "single-enemies"
    /\ \E g \in {singleEnemyUpdate(World, 3, dt, target)} : Commit(g)
    /\ pc' = "single-idle"
    /\ UNCHANGED <<applied, lastCall, loopVars, pathVars, ui, cur, ticks, probe>>

NextSingle ==
    \/ SingleStart
    \/ \E raw \in FrameDeltas : SingleFrame(raw)
    \/ \E delivered \in Deliveries : SinglePlayerStep(delivered)
    \/ SingleQueenStep
    \/ \E delivered \in Deliveries : SingleWorkersStep(delivered)
    \/ \E target \in EnemyTargets : SingleEnemiesStep(target)

SpecSingle == InitSingle /\ [][NextSingle]_vars

\* C9. Spawn liveness in the single-colony game: with colonyFood >= 20, the
\* queen spawns a worker no later than the first update in which 10 seconds of
\* simulated time have accumulated since her previous spawn or since the start;
\* so after the queen's update it never is the case that the 10 seconds have
\* accumulated and the colony still has the food for a worker.
C9_SpawnByCooldown ==
    (pc = "single-workers" /\ lastCall.op = "single")
    => ~(lastCall.since >= spawnCooldown /\ colonies[1].food >= foodPerWorker)

-----------------------------------------------------------------------------
(* SpecBoth: the multi-faction game and the single-colony game side by side *)

InitBoth == InitGame \/ InitSingle

NextBoth == NextGame \/ NextSingle

SpecBoth == InitBoth /\ [][NextBoth]_vars

\* no update is under way
BetweenUpdates == pc \in {"idle", "single-idle"}

\* the queen of the player's colony
PlayerQueen == colonies[CHOOSE c \in DOMAIN colonies : colonies[c].isPlayer].queen

DeadTurn ==
    \/ pc \in {"player", "single-player"} /\ ~ants[PlayerId].alive
    \/ /\ pc = "colony" /\ cur.w = 0
       /\ ~ants[colonies[gameColonies[cur.c]].queen].alive
    \/ /\ pc = "colony" /\ cur.w >= 1
       /\ cur.w <= Len(colonies[gameColonies[cur.c]].workers)
       /\ ~ants[colonies[gameColonies[cur.c]].workers[cur.w]].alive
    \/ pc = "single-queen" /\ ~ants[2].alive
    \/ pc = "single-enemies" /\ ~ants[3].alive

\* C12. Dead is absorbing: the update of an agent whose alive flag is false
\* changes nothing: no agent moves, no tile is dug, no food is picked up,
\* delivered or spent, no damage is dealt and no worker is spawned.
C12_DeadIsAbsorbing ==
    [][DeadTurn => UNCHANGED <<tiles, ants, colonies, gameColonies, foods, foodSources>>]_vars

\* the turn of a dead AI worker has just passed, within the update in which
\* it was killed
C12_Witness ==
    /\ pc = "colony"
    /\ cur.w >= 2
    /\ cur.w - 1 <= Len(colonies[gameColonies[cur.c]].workers)
    /\ LET w == colonies[gameColonies[cur.c]].workers[cur.w - 1]
       IN ~ants[w].alive /\ ~ants[w].isPlayer /\ ants[w].health = 0

\* the colonies of Game.colonies whose turn in this update is still to come
\* and whose queen, being alive, will be updated in it
QueensWaiting ==
    IF pc = "colony"
    THEN {j \in (cur.c + 1) .. Len(gameColonies) :
             ants[colonies[gameColonies[j]].queen].alive}
    ELSE {}

\* C13. Update order: within every Game.update the agents are updated in the
\* order player, then all queens, then all AI workers, then all enemy ants; so
\* when an AI worker is updated, no queen of another colony is still waiting for
\* her update of the same tick.
C13_UpdateOrder ==
    [][(Updating # 0 /\ Updating # PlayerId) => QueensWaiting = {}]_vars

\* the ants that the step kills
Killed == {e \in DOMAIN ants : ants[e].alive /\ ~ants'[e].alive}

\* the step adds one food source, with the place and the load of e, at the end
\* of Game.foodSources
DropsLoadOf(e) ==
    /\ Len(foods') = Len(foods) + 1
    /\ foods'[Len(foods')] = [x |-> ants[e].x, y |-> ants[e].y, amount |-> ants[e].foodAmount]
    /\ foodSources' = Append(foodSources, Len(foods'))

\* the step adds no food source
DropsNothing ==
    /\ Len(foods') = Len(foods)
    /\ Len(foodSources') <= Len(foodSources)

\* C16. Death drop: when a hit brings the health of an agent that carries food
\* to 0, exactly one food source is added to Game.foodSources, at the place of
\* the agent and with the amount it carried; an agent that dies carrying nothing
\* adds no food source, and neither does a step in which nobody dies.
C16_DeathDrop ==
    [][/\ \A e \in Killed :
             IF ants[e].carryingFood /\ ants[e].foodAmount > 0
             THEN DropsLoadOf(e)
             ELSE DropsNothing
       /\ Killed = {} => DropsNothing]_vars

\* an ant was killed with food on it, and the last food source of the game is
\* its load at its place
C16_Witness ==
    /\ pc \in {"colony", "cleanup"}
    /\ Len(foods) >= 1
    /\ \E e \in DOMAIN ants :
          /\ ~ants[e].alive
          /\ ants[e].health = 0
          /\ ants[e].carryingFood
          /\ ants[e].foodAmount > 0
          /\ foods[Len(foods)] = [x |-> ants[e].x, y |-> ants[e].y, amount |-> ants[e].foodAmount]
          /\ foodSources[Len(foodSources)] = Len(foods)

\* the pick-up radius and the carry capacity of the role of ant a
PickupRadius(a) == IF ants[a].isPlayer THEN PlayerPickupRange ELSE AiPickupRange
CarryCapacity(a) == IF ants[a].isPlayer THEN PlayerCarry ELSE AiCarry

\* the food sources of the game that have food and are within the pick-up
\* radius of a when its update looks for food (a has moved by then)
FoodInReach(a) ==
    {f \in DOMAIN foods :
        /\ \E k \in 1 .. Len(foodSources) : foodSources[k] = f
        /\ foods[f].amount > 0
        /\ Nearer(ants'[a].x, ants'[a].y, foods[f].x, foods[f].y, PickupRadius(a))}

\* after the step a carries load; or a, being next to its queen, has
\* delivered the load it took within the same update
HoldsLoad(a, load) ==
    \/ /\ ants'[a].carryingFood
       /\ ants'[a].foodAmount = load
       /\ colonies'[ants[a].colony].food = colonies[ants[a].colony].food
    \/ /\ ~ants'[a].carryingFood
       /\ ants'[a].foodAmount = 0
       /\ colonies'[ants[a].colony].food = colonies[ants[a].colony].food + load

\* the step moves min(capacity, amount) from source f to a and changes no
\* other food source
TakesFrom(a, f) ==
    LET taken == IF CarryCapacity(a) < foods[f].amount
                 THEN CarryCapacity(a) ELSE foods[f].amount
    IN /\ foods'[f].amount = foods[f].amount - taken
       /\ HoldsLoad(a, taken)
       /\ \A o \in DOMAIN foods : o # f => foods'[o] = foods[o]

\* C17. Pick-up transfer: when an agent that carries nothing is updated within
\* the pick-up radius of a food source with amount > 0, exactly min(carry
\* capacity of its role, amount of the source) is moved from the source to the
\* agent, which then carries food, and no other food source changes.
C17_PickUpTransfer ==
    [][(Updating # 0 /\ ~ants[Updating].carryingFood /\ FoodInReach(Updating) # {})
       => \E f \in FoodInReach(Updating) : TakesFrom(Updating, f)]_vars

\* the source the update of a looks at: for the player the first source of
\* Game.foodSources in reach, for an AI worker the food it is heading for
SourceTried(a) ==
    IF ants[a].isPlayer
    THEN LET ks == {k \in 1 .. Len(foodSources) : foodSources[k] \in FoodInReach(a)}
         IN IF ks = {} THEN 0
            ELSE foodSources[CHOOSE k \in ks : \A j \in ks : k <= j]
    ELSE IF ants'[a].targetFood \in FoodInReach(a) THEN ants'[a].targetFood ELSE 0

\* C17 (amended). Pick-up transfer: when a living agent that carries nothing
\* is updated, the player takes from the first source of the food list within
\* its pick-up radius that has food, and an AI worker takes from the source it
\* is heading for once that source is within its pick-up radius; what is moved
\* is exactly min(carry capacity of the role, amount of the source), the agent
\* then carries food, and no other food source changes. If there is no such
\* source, the update takes food from no source.
C17_PickUpFromTarget ==
    [][(Updating # 0 /\ ants[Updating].alive /\ ~ants[Updating].carryingFood)
       => IF SourceTried(Updating) # 0
          THEN TakesFrom(Updating, SourceTried(Updating))
          ELSE \A o \in DOMAIN foods : foods'[o] = foods[o]]_vars

\* an AI worker has emptied the source it was heading for, taking the 4 units
\* that were left of it, fewer than it can carry
C17_Witness ==
    \E a \in DOMAIN ants :
        /\ ants[a].kind = "worker"
        /\ ~ants[a].isPlayer
        /\ ants[a].alive
        /\ ants[a].carryingFood
        /\ ants[a].foodAmount = 4
        /\ ants[a].targetFood # 0
        /\ foods[ants[a].targetFood].amount = 0

\* after moving, a is within the delivery radius of the queen of its colony
AtOwnQueen(a) ==
    LET q == ants[colonies[ants[a].colony].queen]
    IN Nearer(ants'[a].x, ants'[a].y, q.x, q.y, DeliverRange)

\* the step changes the food of no colony but c
OtherStockpilesKept(c) ==
    \A o \in DOMAIN colonies : o # c => colonies'[o].food = colonies[o].food

\* C18. Delivery: when a food-carrying worker is updated within the delivery
\* radius of the queen of its own colony, the food of that colony grows by
\* exactly the carried amount, the worker then carries nothing, and the food
\* of no other colony changes; the update of a worker never adds food to a
\* colony other than its own.
C18_Delivery ==
    [][Updating # 0
       => /\ OtherStockpilesKept(ants[Updating].colony)
          /\ (ants[Updating].carryingFood /\ AtOwnQueen(Updating))
                => /\ colonies'[ants[Updating].colony].food =
                         colonies[ants[Updating].colony].food + ants[Updating].foodAmount
                   /\ ants'[Updating].foodAmount = 0
                   /\ ~ants'[Updating].carryingFood]_vars

\* the worker of colony A has brought its 5 units to the 10 of its colony
C18_Witness ==
    \E a \in DOMAIN ants :
        /\ ants[a].kind = "worker"
        /\ ~ants[a].isPlayer
        /\ ~colonies[ants[a].colony].isPlayer
        /\ ~ants[a].carryingFood
        /\ ants[a].foodAmount = 0
        /\ colonies[ants[a].colony].food = 15

\* the living worker ants of the player's colony, the player included
LivingPlayerWorkers ==
    {a \in DOMAIN ants :
        /\ ants[a].kind = "worker"
        /\ ants[a].alive
        /\ colonies[ants[a].colony].isPlayer}

\* C19. Displayed worker count: after every Game.update the value written to
\* the worker-count element is the number of living worker ants of the
\* player's colony, the player included.
C19_WorkerCount ==
    (pc = "idle" /\ ticks >= 1) => ui.workers = Cardinality(LivingPlayerWorkers)

\* the position an AI worker that looks for food tries to reach in its update:
\* speed * dt along the line to the food it is heading for; << >> if the
\* worker carries food, has no food to head for, or is at the food already
Candidate(a) ==
    LET tf == ants'[a].targetFood
        dx == IF tf = 0 THEN 0 ELSE foods[tf].x - ants[a].x
        dy == IF tf = 0 THEN 0 ELSE foods[tf].y - ants[a].y
    IN IF ants[a].isPlayer \/ ants[a].carryingFood \/ tf = 0 THEN << >>
       ELSE IF ~(Sq(dx) + Sq(dy) > Sq(MoveEps)) THEN << >>
       ELSE <<ants[a].x + Along(dx, Dist(dx, dy), speed * dt),
              ants[a].y + Along(dy, Dist(dx, dy), speed * dt)>>

\* (x, y) is in a dirt tile of the world that is not passable
InDirt(x, y) ==
    /\ isValidTile(Floor(x), Floor(y))
    /\ ~tiles[Floor(y)][Floor(x)].dug
    /\ tiles[Floor(y)][Floor(x)].type = "dirt"

\* the step has added dig progress to tile (tx, ty), or has dug it
DigsInto(tx, ty) ==
    \/ tiles'[ty][tx].dug
    \/ /\ IsNum(tiles'[ty][tx].digProgress)
       /\ tiles'[ty][tx].digProgress > OrZero(tiles[ty][tx].digProgress)

\* C20. Sustained digging makes progress: an agent whose candidate position of
\* a tick with dt > 0 is in a non-passable dirt tile inside the world keeps its
\* position in that tick and adds dig progress to that blocking tile (so that
\* after finitely many such ticks the tile is dug and the agent moves).
C20_DiggingMakesProgress ==
    [][(Updating # 0 /\ IsNum(dt) /\ dt > 0 /\ Candidate(Updating) # << >>)
       => (InDirt(Candidate(Updating)[1], Candidate(Updating)[2])
             => /\ ants'[Updating].x = ants[Updating].x
                /\ ants'[Updating].y = ants[Updating].y
                /\ DigsInto(Floor(Candidate(Updating)[1]),
                            Floor(Candidate(Updating)[2])))]_vars

\* the square of the distance from a, after its move, to e
ReachSq(a, e) == Sq(ants[e].x - ants'[a].x) + Sq(ants[e].y - ants'[a].y)

\* C21. Target choice in combat: when several living hostiles are within
\* range of an agent in the same update, the agent damages the nearest one;
\* it never damages a hostile while a strictly nearer living hostile is in
\* range.
C21_NearestHostileFirst ==
    [][Updating # 0
       => \A e \in Hurt :
             ~\E h \in DOMAIN ants :
                 /\ HostileTo(Updating, h)
                 /\ InReach(Updating, h)
                 /\ ReachSq(Updating, h) < ReachSq(Updating, e)]_vars

\* a and e belong to colonies of different factions
OtherFaction(a, e) ==
    colonies[ants[e].colony].factionId # colonies[ants[a].colony].factionId

\* C29. No friendly fire: no worker's update takes health from the worker
\* itself, from a worker of its own colony or from its own colony's queen;
\* every ant that an update hurts is a living ant of the game, other than the
\* updated worker, of a different faction.
C29_NoFriendlyFire ==
    [][Updating # 0
       => \A e \in Hurt :
             /\ e # Updating
             /\ ants[e].alive
             /\ InGame(e)
             /\ ants[e].colony # ants[Updating].colony
             /\ OtherFaction(Updating, e)]_vars

\* a worker has just hit an ant of another faction while the queen of its own
\* colony, unhurt, was within its attack range
C29_Witness ==
    \E a, e \in DOMAIN ants :
        /\ ants[a].kind = "worker"
        /\ ants[a].alive
        /\ ants[a].attackCooldown = AttackCooldown
        /\ OtherFaction(a, e)
        /\ ants[e].health < ants[e].maxHealth
        /\ Nearer(ants[a].x, ants[a].y, ants[e].x, ants[e].y, AttackRange)
        /\ LET q == colonies[ants[a].colony].queen
           IN /\ ants[q].alive
              /\ ants[q].health = ants[q].maxHealth
              /\ Nearer(ants[a].x, ants[a].y, ants[q].x, ants[q].y, AttackRange)

\* the step adds a worker to colony c
Spawns(c) == Len(colonies'[c].workers) > Len(colonies[c].workers)

\* C30. Spawn spacing: a queen spawns a worker only when at least spawnCooldown
\* (10 s) of simulated time has been passed to the updates since its previous
\* spawn, and a spawn adds one worker, whatever food the colony holds and
\* however long the queen had waited for food; so two spawns of one queen are
\* never in the same tick.
C30_SpawnSpacing ==
    [][\A c \in DOMAIN colonies :
          Spawns(c) => /\ probe.since[c] >= spawnCooldown
                       /\ Len(colonies'[c].workers) = Len(colonies[c].workers) + 1
                       /\ Len(ants') = Len(ants) + 1]_vars

\* a queen that spawned less than two full steps ago has been updated again
\* and has not spawned, although its colony holds the food for a worker
C30_Witness ==
    /\ pc = "idle"
    /\ ticks >= 2
    /\ \E c \in DOMAIN colonies :
          /\ probe.since[c] >= 1
          /\ probe.since[c] <= 2 * MaxStep
          /\ ants[colonies[c].queen].alive
          /\ ants[colonies[c].queen].spawnTimer = probe.since[c]
          /\ colonies[c].food >= foodPerWorker
          /\ Len(colonies[c].workers) >= 2

\* the places in Game.foodSources of the sources that have food
LivePlaces == {k \in 1 .. Len(foodSources) : foods[foodSources[k]].amount > 0}

\* the square of the distance from a, before its move, to the source at place k
FoodSq(a, k) ==
    Sq(foods[foodSources[k]].x - ants[a].x) + Sq(foods[foodSources[k]].y - ants[a].y)

\* a is an AI worker that looks for food and has no valid target
Retargets(a) ==
    /\ ~ants[a].isPlayer
    /\ ~ants[a].carryingFood
    /\ (ants[a].targetFood = 0 \/ foods[ants[a].targetFood].amount = 0)

\* C23. Nearest-food selection: an AI worker without a valid target selects a
\* source with amount > 0 whose distance to it is minimal among the sources
\* with amount > 0, the first such one in Game.foodSources; it selects none
\* only if no source has amount > 0.
C23_NearestFood ==
    [][(Updating # 0 /\ Retargets(Updating))
       => IF LivePlaces = {}
          THEN ants'[Updating].targetFood = 0
          ELSE \E k \in LivePlaces :
                  /\ ants'[Updating].targetFood = foodSources[k]
                  /\ \A j \in LivePlaces :
                        /\ FoodSq(Updating, k) <= FoodSq(Updating, j)
                        /\ (FoodSq(Updating, j) = FoodSq(Updating, k) => k <= j)]_vars

\* a worker that had no target heads for the second of three sources, which
\* was the nearest to it, as near as the third
C23_Witness ==
    /\ foodSources = <<1, 2, 3>>
    /\ \E a \in DOMAIN ants :
          /\ ants[a].kind = "worker"
          /\ ~ants[a].isPlayer
          /\ ants[a].alive
          /\ ants[a].targetFood = 2

\* the food of every colony is >= 0
StockpilesNonNegative == \A c \in DOMAIN colonies : colonies[c].food >= 0

\* the step is the update of a worker of colony c that hands in its load: what
\* it carried, or what it has taken from a food source in this same update
ByDelivery(c) ==
    /\ Updating # 0
    /\ ants[Updating].colony = c
    /\ ~ants'[Updating].carryingFood
    /\ ants'[Updating].foodAmount = 0
    /\ colonies'[c].food > colonies[c].food
    /\ IF ants[Updating].carryingFood
       THEN colonies'[c].food = colonies[c].food + ants[Updating].foodAmount
       ELSE \E f \in DOMAIN foods :
               colonies'[c].food = colonies[c].food + (foods[f].amount - foods'[f].amount)

\* the step is the update of the queen of colony c and spawns a worker
BySpawn(c) ==
    /\ QueenUpdating = c
    /\ colonies'[c].food = colonies[c].food - foodPerWorker
    /\ Len(ants') = Len(ants) + 1

\* C26. Colony food stockpile is never negative: in every reachable state the
\* food of each colony is >= 0, and it changes only by a delivery (it grows by
\* the delivered amount) or by a worker spawn (it shrinks by foodPerWorker).
C26_StockpileNonNegative ==
    /\ []StockpilesNonNegative
    /\ [][\A c \in DOMAIN colonies :
             colonies'[c].food # colonies[c].food => (ByDelivery(c) \/ BySpawn(c))]_vars

\* the player's colony has spent its last 20 food on a worker, and colony A,
\* short of the food for one, has received a delivery of 5
C26_Witness ==
    /\ Len(colonies) = 2
    /\ colonies[1].food = 0
    /\ colonies[2].food = 15
    /\ Len(colonies[1].workers) = 2

\* the update of worker w has just called game.findPath
CallsPath(w) == lastCall'.op = "findPath" /\ lastCall'.by = w /\ Updating = w

\* C27: a carrying AI worker calls game.findPath at most once per 2 seconds of
\* simulated time: when a worker's update calls findPath and the call recorded
\* before it was made by the same worker, at least PathRecalc of simulated
\* time has been added between the two calls, whether or not the earlier
\* call found a path
C27_PathRecalcInterval ==
    [][\A w \in DOMAIN ants :
          (CallsPath(w) /\ lastCall.op = "findPath" /\ lastCall.by = w)
              => lastCall.since >= PathRecalc]_vars

-----------------------------------------------------------------------------
(* SpecPath: findPath called on a generated world, for start and goal      *)
(* positions in the sky rows, in the starting chamber, in dirt and outside *)
(* the world.                                                               *)

\* the worlds findPath is called on
PathWorlds == {startChamber(BaseTiles),
               startChamber(carveTunnel(BaseTiles, 0, 12, 1, 0))}

\* start and goal positions: <<x, y>> in twentieths of a tile
PathPoints == {<<10, 10>>, <<90, 90>>, <<84, 98>>, <<50, 70>>, <<30, 10>>,
               <<5 * PosScale + 10, 12 * PosScale + 10>>,
               <<6 * PosScale + 10, 12 * PosScale + 10>>,
               <<2 * PosScale + 10, 10 * PosScale + 10>>,
               <<10, 13 * PosScale + 10>>,
               <<0 - 10, 2 * PosScale>>}

InitPath ==
    /\ tiles \in PathWorlds
    /\ applied = << >>
    /\ lastCall = NoCall
    /\ running = FALSE
    /\ lastTime = 0
    /\ dt = 0
    /\ PathIdle
    /\ GameIdle
    /\ pc = "call"

\* one call findPath(startX, startY, endX, endY)
PathCall(from, to) ==
    /\ pc = "call"
    /\ query' = [startX |-> from[1], startY |-> from[2], endX |-> to[1], endY |-> to[2]]
    /\ path' = findPath(tiles, from[1], from[2], to[1], to[2])
    /\ pc' = "done"
    /\ UNCHANGED <<worldVars, loopVars, gameVars>>

\* the positions canMove and getTile are asked about: left of, above, right
\* of and below the world, its corners, the sky, the chamber and dirt
MovePoints == {<<0 - 1, 0>>, <<0 - 3 * PosScale, 12 * PosScale>>, <<0, 0 - 1>>,
               <<worldWidth * PosScale, 10>>, <<10, worldHeight * PosScale>>,
               <<0, 0>>, <<worldWidth * PosScale - 1, worldHeight * PosScale - 1>>,
               <<5 * PosScale + 10, 12 * PosScale + 10>>,
               <<10, 12 * PosScale + 10>>, <<10, 11 * PosScale + 10>>}

\* one call canMove(x, y), and getTile(x, y) for the same position
MoveCall(at) ==
    /\ pc = "call"
    /\ lastCall' = [op |-> "canMove", x |-> at[1], y |-> at[2],
                    ret |-> canMove(tiles, at[1], at[2]),
                    tile |-> getTile(tiles, at[1], at[2])]
    /\ pc' = "asked"
    /\ UNCHANGED <<tiles, applied, loopVars, pathVars, gameVars>>

NextPath ==
    \/ \E from \in PathPoints, to \in PathPoints : PathCall(from, to)
    \/ \E at \in MovePoints : MoveCall(at)

SpecPath == InitPath /\ [][NextPath]_vars

\* the tiles (0..4, 0..4) are all passable
OpenGrid5 == \A x \in 0 .. 4, y \in 0 .. 4 : passable(tiles, x, y)

\* consecutive waypoints differ by at most one tile in each coordinate
WaypointsAdjacent(w) ==
    \A i \in 1 .. Len(w) - 1 :
        /\ MathAbs(w[i + 1][1] - w[i][1]) <= PosScale
        /\ MathAbs(w[i + 1][2] - w[i][2]) <= PosScale

\* C2. Pathfinding correctness: on a grid whose tiles (0..4, 0..4) are all
\* passable, findPath from tile (0,0) to tile (4,4) returns a path (not null)
\* that ends at the waypoint (4.5, 4.5), whose consecutive waypoints differ by
\* at most 1 in each coordinate, and that has at most 5 steps.
C2_PathOnOpenGrid ==
    (/\ pc = "done"
     /\ OpenGrid5
     /\ Floor(query.startX) = 0 /\ Floor(query.startY) = 0
     /\ Floor(query.endX) = 4 /\ Floor(query.endY) = 4)
    => /\ path.found
       /\ Len(path.waypoints) >= 1
       /\ path.waypoints[Len(path.waypoints)] = center(<<4, 4>>)
       /\ WaypointsAdjacent(path.waypoints)
       /\ Len(path.waypoints) - 1 <= 5

\* C14. findPath result shape: every path that findPath returns is a sequence
\* of tile centres, does not contain the centre of the start tile, and has the
\* centre of the goal tile as its last waypoint.
C14_PathShape ==
    (pc = "done" /\ path.found)
    => LET w == path.waypoints
           startCentre == center(<<Floor(query.startX), Floor(query.startY)>>)
           goalCentre == center(<<Floor(query.endX), Floor(query.endY)>>)
       IN /\ Len(w) >= 1
          /\ w[Len(w)] = goalCentre
          /\ \A k \in 1 .. Len(w) : w[k] = center(<<Floor(w[k][1]), Floor(w[k][2])>>)
          /\ \A k \in 1 .. Len(w) : w[k] # startCentre

\* the tile of a position is inside the world and open
OpenAt(x, y) ==
    /\ Floor(x) >= 0 /\ Floor(x) < worldWidth
    /\ Floor(y) >= 0 /\ Floor(y) < worldHeight
    /\ (tiles[Floor(y)][Floor(x)].dug \/ tiles[Floor(y)][Floor(x)].type = "air")

\* C15. findPath always terminates: for any grid and any endpoints the call
\* returns after at most 500 node expansions, with a path or with null; it
\* returns null without any expansion when an endpoint is not passable. (A
\* result that is not found and yet has waypoints stands for a walk of
\* reconstructPath that does not end.)
C15_FindPathTerminates ==
    pc = "done"
    => /\ path.iterations <= 500
       /\ path.found => Len(path.waypoints) >= 1
       /\ ~path.found => path.waypoints = << >>
       /\ (~OpenAt(query.startX, query.startY) \/ ~OpenAt(query.endX, query.endY))
          => (~path.found /\ path.iterations = 0)

\* a search between two passable tiles has run and has returned null
C15_Witness ==
    /\ pc = "done"
    /\ OpenAt(query.startX, query.startY)
    /\ OpenAt(query.endX, query.endY)
    /\ path.iterations >= 1
    /\ ~path.found
    /\ path.waypoints = << >>

-----------------------------------------------------------------------------
(* SpecPlace: the end of generateWorld and createColony.  spawnFoodInCaves   *)
(* and spawnEnemiesInCaves collect candidate spots in a scan of the grid,   *)
(* row by row, and then place items on spots drawn at random.  Which dug    *)
(* air tiles pass the open-space and distance tests of the scan depends on  *)
(* the size of the caves; here the scan may return any of the dug air tiles *)
(* among SpotSites, in scan order.                                          *)

\* the largest count the two calls are made with
MaxCount == 2

\* the tiles a scan may return as candidate spots
SpotSites == {<<1, 12>>, <<1, 11>>, <<8, 13>>}

\* the generated worlds the items are placed in
PlaceWorlds == {GameTiles, startChamber(carveTunnel(BaseTiles, 0, 12, 1, 1))}

\* 50 + Math.floor(Math.random() * 100): the smallest and the largest amount
FoodAmounts == {50, 149}

\* (Math.random() - 0.5) * 4 for both coordinates of the first worker of a nest
NestWorkerOffsets == {<<0, 0>>, <<0, 0 - PosScale>>}

\* { x: x + 0.5, y: y + 0.5 } for tile c
SpotOf(c) == <<c[1] * PosScale + PosScale \div 2, c[2] * PosScale + PosScale \div 2>>

\* the spots of the tiles S in the order of the scan (for y, for x)
RECURSIVE ScanOrder(_)
ScanOrder(S) ==
    IF S = {} THEN << >>
    ELSE LET c == CHOOSE c \in S :
                     \A o \in S : c[2] < o[2] \/ (c[2] = o[2] /\ c[1] <= o[1])
         IN <<SpotOf(c)>> \o ScanOrder(S \ {c})

\* the candidate lists a scan of grid t may end with
SpotLists(t) ==
    {ScanOrder(S) : S \in SUBSET {c \in SpotSites :
                                     t[c[2]][c[1]].dug /\ t[c[2]][c[1]].type = "air"}}

\* the placement loop of spawnFoodInCaves, left more iterations to go: every
\* sequence of food sources the random draws can produce
RECURSIVE foodRuns(_, _, _)
foodRuns(spots, left, acc) ==
    IF left = 0 THEN {acc}
    ELSE UNION {foodRuns(RemoveAt(spots, i), left - 1,
                         Append(acc, FoodSource(spots[i][1], spots[i][2], amount))) :
                   i \in 1 .. Len(spots), amount \in FoodAmounts}

\* spawnFoodInCaves(count) on the candidate list caveSpots
spawnFoodInCaves(caveSpots, count) ==
    foodRuns(caveSpots, MathMin(count, Len(caveSpots)), << >>)

\* the loop of spawnEnemiesInCaves at iteration i: the test
\* i < Math.min(count, nestSpots.length) is made on every iteration, with the
\* list as the splices have left it
RECURSIVE nestRuns(_, _, _, _)
nestRuns(spots, i, count, acc) ==
    IF i < MathMin(count, Len(spots))
    THEN UNION {nestRuns(RemoveAt(spots, j), i + 1, count,
                         Append(acc, [spot |-> spots[j], worker |-> off])) :
                   j \in 1 .. Len(spots), off \in NestWorkerOffsets}
    ELSE {acc}

\* spawnEnemiesInCaves(count) on the candidate list nestSpots
spawnEnemiesInCaves(nestSpots, count) == nestRuns(nestSpots, 0, count, << >>)

\* the state after generateCaveSystems and the starting chamber
InitPlace ==
    /\ tiles \in PlaceWorlds
    /\ applied = << >>
    /\ lastCall = NoCall
    /\ running = FALSE
    /\ lastTime = 0
    /\ dt = 0
    /\ PathIdle
    /\ GameIdle
    /\ pc = "place-food"

\* generateWorld: this.spawnFoodInCaves(count)
PlaceFood(count) ==
    /\ pc = "place-food"
    /\ \E caveSpots \in SpotLists(tiles) :
          \E placed \in spawnFoodInCaves(caveSpots, count) :
              /\ foods' = placed
              /\ foodSources' = [k \in 1 .. Len(placed) |-> k]
              /\ lastCall' = [op |-> "spawnFoodInCaves", count |-> count,
                              spots |-> caveSpots]
    /\ pc' = "place-enemies"
    /\ UNCHANGED <<tiles, applied, loopVars, pathVars, ants, colonies, gameColonies,
                   ui, cur, ticks, probe>>

\* generateWorld: this.spawnEnemiesInCaves(count); nest k gets the ants
\* 2k - 1 (its queen) and 2k (its first worker)
PlaceEnemies(count) ==
    /\ pc = "place-enemies"
    /\ \E nestSpots \in SpotLists(tiles) :
          \E placed \in spawnEnemiesInCaves(nestSpots, count) :
              /\ ants' = [n \in 1 .. 2 * Len(placed) |->
                            LET k == (n + 1) \div 2
                                at == placed[k].spot
                            IN IF n % 2 = 1 THEN Queen(at[1], at[2], k)
                               ELSE WorkerAnt(at[1] + placed[k].worker[1],
                                              at[2] + placed[k].worker[2], FALSE, k)]
              /\ colonies' = [k \in 1 .. Len(placed) |->
                                Colony(k, FALSE, 2 * k - 1, <<2 * k>>, 0)]
              /\ gameColonies' = [k \in 1 .. Len(placed) |-> k]
              /\ lastCall' = [op |-> "spawnEnemiesInCaves", count |-> count,
                              spots |-> nestSpots]
    /\ pc' = "placed"
    /\ UNCHANGED <<tiles, applied, loopVars, pathVars, foods, foodSources,
                   ui, cur, ticks, probe>>

NextPlace ==
    \/ \E count \in 0 .. MaxCount : PlaceFood(count)
    \/ \E count \in 0 .. MaxCount : PlaceEnemies(count)

SpecPlace == InitPlace /\ [][NextPlace]_vars

\* the positions in seq are pairwise distinct candidate spots of the last call
\* and lie in dug tiles
OnDistinctSpots(seq) ==
    /\ \A i, j \in 1 .. Len(seq) : i # j => seq[i] # seq[j]
    /\ \A i \in 1 .. Len(seq) :
          /\ \E k \in 1 .. Len(lastCall.spots) : lastCall.spots[k] = seq[i]
          /\ tiles[Floor(seq[i][2])][Floor(seq[i][1])].dug

\* the food sources placed, as positions
FoodPlaced == [k \in 1 .. Len(foodSources) |-> <<foods[foodSources[k]].x, foods[foodSources[k]].y>>]

\* the nests placed, as the positions of their queens
NestsPlaced ==
    [k \in 1 .. Len(gameColonies) |->
        <<ants[colonies[gameColonies[k]].queen].x, ants[colonies[gameColonies[k]].queen].y>>]

\* spawnFoodInCaves places min(count, candidates) food sources on pairwise
\* distinct candidate spots in dug tiles
FoodPlacement ==
    lastCall.op = "spawnFoodInCaves"
    => /\ Len(foodSources) = MathMin(lastCall.count, Len(lastCall.spots))
       /\ OnDistinctSpots(FoodPlaced)

\* spawnEnemiesInCaves places its nests on pairwise distinct candidate spots
\* in dug tiles
NestsOnSpots == lastCall.op = "spawnEnemiesInCaves" => OnDistinctSpots(NestsPlaced)

\* C22. Generator placement count: spawnFoodInCaves(count) and
\* spawnEnemiesInCaves(count) each place exactly min(count, number of
\* candidate spots) items, every item on a pairwise distinct candidate spot
\* whose tile is dug, also when there are fewer candidates than requested.
C22_PlacementCount ==
    /\ FoodPlacement
    /\ NestsOnSpots
    /\ lastCall.op = "spawnEnemiesInCaves"
          => Len(gameColonies) = MathMin(lastCall.count, Len(lastCall.spots))

\* the living agents of the game: player, workers, queens
LivingAgents == {i \in DOMAIN ants : ants[i].alive}

\* C28. Agents stay in open space: in every reachable state the position of
\* every living agent lies inside the world in a passable tile, that is
\* canMove(agent.x, agent.y) holds, after world generation, after every spawn
\* and after every update.
C28_AgentsInOpenSpace ==
    \A i \in LivingAgents : canMove(tiles, ants[i].x, ants[i].y)

\* C25. Passability: canMove(x, y) is truthy exactly when (floor(x), floor(y))
\* lies inside the world and that tile is dug or of type air; every position
\* outside the world, negative coordinates included, is not passable, and
\* getTile returns null for it.
C25_Passability ==
    lastCall.op = "canMove"
    => LET tx == lastCall.x \div PosScale
           ty == lastCall.y \div PosScale
           inside == tx \in Cols /\ ty \in Rows
       IN /\ lastCall.ret <=> (inside /\ (tiles[ty][tx].dug \/ tiles[ty][tx].type = "air"))
          /\ ~inside => (~lastCall.ret /\ lastCall.tile = Undefined)
          /\ inside => lastCall.tile = tiles[ty][tx]

\* canMove was asked about a position with a negative coordinate
C25_Witness ==
    /\ lastCall.op = "canMove"
    /\ lastCall.x < 0
    /\ ~lastCall.ret
    /\ lastCall.tile = Undefined
====
